---- MODULE Spec2Model ----
(***************************************************************************)
(* Model of the itandi BB rent researcher (package itandi_search).         *)
(*                                                                         *)
(*   Spec        one run of run.main(): sheets initialisation, criteria    *)
(*               load, seen/pending load, login, the per-customer loop     *)
(*               (search, filter, image enrichment, pending write,         *)
(*               notification) and the final session close.                *)
(*   SpecRuns    the same run repeated against the same spreadsheet.       *)
(*   SpecSearch  search.search_properties() followed page by page.         *)
(*   SpecNotify  discord.send_property_notification() and                  *)
(*               discord.send_error_notification(), POST by POST.          *)
(*   SpecLogin   auth.ItandiSession.login() and the calls that follow it.  *)
(*   SpecParse   the price and area text parsers of search.py on bounded   *)
(*               texts.                                                    *)
(*   SpecStations  search.resolve_station_ids() name by name, then the     *)
(*               station filter of the search payload.                     *)
(*   SpecSession one ItandiSession under any sequence of login() and       *)
(*               close() calls.                                            *)
(*   SpecCustomer  one iteration of main()'s loop with its search followed *)
(*               page by page.                                             *)
(*   SpecDelivery  the new listings of one customer with the notification  *)
(*               followed POST by POST.                                    *)
(*   SpecProgress  the runs of main(), of a search and of a notification   *)
(*               under weak fairness of the step.                          *)
(*   SpecSeen    sheets.mark_properties_seen() and the loader of the sheet *)
(*               it appends to.                                            *)
(***************************************************************************)
EXTENDS Integers, Sequences, FiniteSets, TLC

(***************************************************************************)
(* Bounds of the model.                                                    *)
(***************************************************************************)
MaxCustomers == 2
MaxRoomId == 1
MaxScenarioPages == 2
MaxRuns == 2
MaxListings == 2
MaxTextLen == 4
MaxStationNames == 2
MaxSessionCalls == 4

(***************************************************************************)
(* Program constants.                                                      *)
(***************************************************************************)
max_pages == 10
PageLimit == 20
DocumentedMaxResults == 200

(***************************************************************************)
(* search._parse_price_text and search._parse_area_text.  A text is a      *)
(* sequence of characters; "man" is the character 万, "yen" is 円 and       *)
(* "m2" is ㎡.  The result of a call is [raised, num, den]: raised is TRUE  *)
(* when ValueError leaves the function, otherwise the value returned is    *)
(* num / den (den = 1 for the integer _parse_price_text returns).          *)
(***************************************************************************)
Digits == {"1", "2", "3", "5"}

NumChars == Digits \cup {"."}

Chars == NumChars \cup {",", "man", "yen", "-", " ", "m2"}

Texts == UNION {[1..n -> Chars] : n \in 0..MaxTextLen}

DigitValue(c) ==
    CASE c = "1" -> 1 [] c = "2" -> 2 [] c = "3" -> 3 [] c = "5" -> 5

RECURSIVE DigitsValue(_)
DigitsValue(ds) ==
    IF ds = << >> THEN 0
    ELSE DigitsValue(SubSeq(ds, 1, Len(ds) - 1)) * 10 + DigitValue(ds[Len(ds)])

RECURSIVE Pow10(_)
Pow10(k) == IF k = 0 THEN 1 ELSE 10 * Pow10(k - 1)

\* str.replace(c, "") for every c of chars
Remove(text, chars) == SelectSeq(text, LAMBDA c : c \notin chars)

\* str.strip()
RECURSIVE Strip(_)
Strip(text) ==
    IF text = << >> THEN text
    ELSE IF Head(text) = " " THEN Strip(Tail(text))
    ELSE IF text[Len(text)] = " " THEN Strip(SubSeq(text, 1, Len(text) - 1))
    ELSE text

\* the positions where a maximal run of [\d.] characters starts
RunStarts(text) ==
    {i \in 1..Len(text) :
        text[i] \in NumChars /\ (i = 1 \/ text[i - 1] \notin NumChars)}

\* the last position of the run of [\d.] characters that starts at i
RECURSIVE RunEnd(_, _)
RunEnd(text, i) ==
    IF i < Len(text) /\ text[i + 1] \in NumChars THEN RunEnd(text, i + 1)
    ELSE i

\* the first position after i that holds no white space
RECURSIVE SkipSpace(_, _)
SkipSpace(text, i) ==
    IF i <= Len(text) /\ text[i] = " " THEN SkipSpace(text, i + 1) ELSE i

Min(S) == CHOOSE i \in S : \A j \in S : i <= j

NoMatch == << >>

\* re.search(r"[\d.]+", text): the leftmost run, taken whole
SearchNumber(text) ==
    IF RunStarts(text) = {} THEN NoMatch
    ELSE LET i == Min(RunStarts(text)) IN SubSeq(text, i, RunEnd(text, i))

\* re.search(r"([\d.]+)\s*万", text): group 1 of the leftmost match, which
\* is the leftmost whole run followed by optional white space and 万
SearchMan(text) ==
    LET followed ==
            {i \in RunStarts(text) :
                LET k == SkipSpace(text, RunEnd(text, i) + 1)
                IN  k <= Len(text) /\ text[k] = "man"}
    IN  IF followed = {} THEN NoMatch
        ELSE LET i == Min(followed) IN SubSeq(text, i, RunEnd(text, i))

\* float() accepts a run of [\d.] characters that has a digit and at most
\* one point, and raises ValueError for every other run
FloatAccepts(g) ==
    /\ \E i \in 1..Len(g) : g[i] \in Digits
    /\ Cardinality({i \in 1..Len(g) : g[i] = "."}) <= 1

\* the decimal value of an accepted run, as num / den
Decimal(g) ==
    LET points == {i \in 1..Len(g) : g[i] = "."}
        d == IF points = {} THEN Len(g) + 1 ELSE Min(points)
        whole == SubSeq(g, 1, d - 1)
        frac == SubSeq(g, d + 1, Len(g))
    IN  [num |-> DigitsValue(whole) * Pow10(Len(frac)) + DigitsValue(frac),
         den |-> Pow10(Len(frac))]

\* base^q mod m, for the few factors of a power of two
RECURSIVE PowMod(_, _, _)
PowMod(base, q, m) ==
    IF q = 0 THEN 1 % m ELSE (PowMod(base, q - 1, m) * (base % m)) % m

\* 2^s mod m, in steps of 2^13 so that no product leaves 32 bits
PowMod2(s, m) == (PowMod(8192, s \div 13, m) * ((2 ^ (s % 13)) % m)) % m

\* the largest e with 2^e <= num / den
FloorLog2(num, den) ==
    LET Fits(e) == IF e >= 0 THEN 2 ^ e <= num \div den
                   ELSE (den + 2 ^ (-e) - 1) \div (2 ^ (-e)) <= num
        S == {e \in -14..30 : Fits(e)}
    IN  CHOOSE e \in S : \A f \in S : f <= e

\* float(g) * 10000 is a product of binary64 numbers, rounded to nearest.
\* float(g) is num / den rounded to 53 bits: with s = 52 - FloorLog2 the
\* part cut off is r / den of the last bit, r = (num * 2^s) mod den, and
\* float(g) lies below num / den when r / den < 1/2.  The product then
\* lies r / den * 10000 * 2^(1 - d) half-gaps below the integer
\* N = num * 10000 / den, where d is the distance of the binades of N and
\* of num / den, and it is rounded to the double below N when that is more
\* than one half-gap: int() truncates it to N - 1.  A run with more than
\* four decimals has no integer product and is truncated to its floor.
BelowDecimal(g) ==
    LET v == Decimal(g)
    IN  IF v.num = 0 \/ v.den = 1 \/ v.den > 10000 THEN FALSE
        ELSE LET N == v.num * (10000 \div v.den)
                 ex == FloorLog2(v.num, v.den)
                 gaps == {e \in 0..30 : 2 ^ e < N /\ (N - 1) \div (2 ^ e) <= 1}
                 r == ((v.num % v.den) * PowMod2(52 - ex, v.den)) % v.den
             IN  /\ gaps # {}
                 /\ (CHOOSE e \in gaps : TRUE) - ex = 13
                 /\ 2 * r < v.den
                 /\ r * 10000 > v.den * 4096

Raised == [raised |-> TRUE, num |-> 0, den |-> 1]

Returned(num, den) == [raised |-> FALSE, num |-> num, den |-> den]

Placeholders == {<< >>, <<"-">>}

_parse_price_text(text) ==
    IF text \in Placeholders THEN Returned(0, 1)
    ELSE LET t == Strip(Remove(text, {",", "yen"}))
             man == SearchMan(t)
             number == SearchNumber(t)
         IN  IF man # NoMatch
             THEN IF FloatAccepts(man)
                  THEN LET v == Decimal(man)
                       IN  Returned((IF v.den <= 10000
                                     THEN v.num * (10000 \div v.den)
                                     ELSE v.num \div (v.den \div 10000))
                                    - (IF BelowDecimal(man) THEN 1 ELSE 0),
                                    1)
                  ELSE Raised
             ELSE IF number # NoMatch
             THEN IF FloatAccepts(number)
                  THEN LET v == Decimal(number)
                       IN  Returned(v.num \div v.den, 1)
                  ELSE Raised
             ELSE Returned(0, 1)

_parse_area_text(text) ==
    IF text = << >> THEN Returned(0, 1)
    ELSE LET number == SearchNumber(text)
         IN  IF number # NoMatch
             THEN IF FloatAccepts(number)
                  THEN LET v == Decimal(number) IN Returned(v.num, v.den)
                  ELSE Raised
             ELSE Returned(0, 1)

(***************************************************************************)
(* Search responses.                                                       *)
(*   room      [isdict, property_id, rent_text, kanrihi_text,              *)
(*              floor_area_text]       property_id 0: key absent or falsy  *)
(*             kanrihi_text is the value of kanrihi_text or, when that is  *)
(*             empty, of kanrihi_kyoekihi_text                             *)
(*   building  [isdict, property_id, rooms]                                *)
(*   data      [buildings, meta, aggregation]  the two fields hold the     *)
(*             value of next_bucket_exists: "absent", "false" or "true"    *)
(*   raw       [exc, status, data]  what execute_async_script gives back:  *)
(*             exc = TRUE is an exception of the driver or of json.loads   *)
(***************************************************************************)
FlagValues == {"absent", "false", "true"}

RoomWith(id, rent_text, kanrihi_text, floor_area_text) ==
    [isdict |-> TRUE, property_id |-> id, rent_text |-> rent_text,
     kanrihi_text |-> kanrihi_text, floor_area_text |-> floor_area_text]

\* a room with the texts "12万円", "-" and "25.5㎡"
Room(id) ==
    RoomWith(id, <<"1", "2", "man", "yen">>, <<"-">>,
             <<"2", "5", ".", "5", "m2">>)

\* a room whose rent text is "."
RoomBadRent(id) == RoomWith(id, <<".">>, << >>, << >>)

\* a room whose floor area text is "1..㎡"
RoomBadArea(id) ==
    RoomWith(id, <<"1", "2", "man", "yen">>, << >>, <<"1", ".", ".", "m2">>)

Building(pid, rooms) == [isdict |-> TRUE, property_id |-> pid, rooms |-> rooms]

Data(buildings, meta, agg) ==
    [buildings |-> buildings, meta |-> meta, aggregation |-> agg]

Raw(status, data) == [exc |-> FALSE, status |-> status, data |-> data]

EmptyData == Data(<< >>, "absent", "absent")

RawException == [exc |-> TRUE, status |-> 0, data |-> EmptyData]

Property(bid, rid) == [building_id |-> bid, room_id |-> rid]

(***************************************************************************)
(* parse_search_response: one record per dict room with a truthy id, in    *)
(* building order then room order.  The texts of such a room are parsed    *)
(* while its record is built, and a ValueError of a parser leaves the      *)
(* function: the result is [raised, properties].                           *)
(***************************************************************************)
RoomRaises(room) ==
    \/ _parse_price_text(room.rent_text).raised
    \/ _parse_price_text(room.kanrihi_text).raised
    \/ _parse_area_text(room.floor_area_text).raised

ParseRaises(buildings) ==
    \E i \in 1..Len(buildings) :
        /\ buildings[i].isdict
        /\ \E j \in 1..Len(buildings[i].rooms) :
              LET room == buildings[i].rooms[j]
              IN  room.isdict /\ room.property_id # 0 /\ RoomRaises(room)

ParseRooms(bldg, rooms) ==
    LET HasId(room) == room.isdict /\ room.property_id # 0
        kept == SelectSeq(rooms, HasId)
    IN  [i \in 1..Len(kept) |->
            Property(bldg.property_id, kept[i].property_id)]

RECURSIVE ParseBuildings(_)
ParseBuildings(buildings) ==
    IF buildings = << >> THEN << >>
    ELSE LET bldg == Head(buildings)
             rest == ParseBuildings(Tail(buildings))
         IN  IF ~bldg.isdict THEN rest
             ELSE IF bldg.rooms = << >> THEN rest
             ELSE ParseRooms(bldg, bldg.rooms) \o rest

parse_search_response(data) ==
    IF ParseRaises(data.buildings)
    THEN [raised |-> TRUE, properties |-> << >>]
    ELSE [raised |-> FALSE, properties |-> ParseBuildings(data.buildings)]

(***************************************************************************)
(* The more-results flag as search_properties reads it: meta first, the    *)
(* aggregation flag only when the meta flag is absent or false.            *)
(***************************************************************************)
FlagGet(v) == v = "true"

HasNext(data) ==
    LET has_next == FlagGet(data.meta)
    IN  IF ~has_next THEN FlagGet(data.aggregation) ELSE has_next

(***************************************************************************)
(* URLs.  A location is [netloc, path, query], each a sequence of words;   *)
(* the string the driver reports as current_url is the sequence of words   *)
(* "https:" "//" netloc path query.  A substring test of the code for one  *)
(* of the words below is the test that the word occurs in the sequence:    *)
(* none of them occurs across the border of two words.                     *)
(***************************************************************************)
AppDomain == "itandibb.com"

LoginDomain == "itandi-accounts.com"

Location(netloc, path, query) ==
    [netloc |-> netloc, path |-> path, query |-> query]

current_url(loc) == << "https:", "//" >> \o loc.netloc \o loc.path \o loc.query

Netlocs ==
    {<< AppDomain >>, << "api.", AppDomain >>, << AppDomain, ".example.org" >>,
     << LoginDomain >>, << "example.com" >>}

Paths == {<< >>, << "/", "login" >>, << "/", "rent_rooms", "/", "list" >>}

Queries ==
    {<< >>,
     << "?", "redirect_uri=", "https:", "//", AppDomain, "/", "callback" >>,
     << "?", "next=", "https:", "//", LoginDomain, "/", "login" >>}

Locations ==
    {Location(n, p, q) : n \in Netlocs, p \in Paths, q \in Queries}

NoLocation == Location(<< >>, << >>, << >>)

WordIn(word, url) == \E i \in 1..Len(url) : url[i] = word

\* urllib.parse.urlparse(url).netloc: what follows "//" up to the first
\* "/", "?" or "#".
UrlNetloc(url) ==
    IF Len(url) < 2 \/ url[2] # "//" THEN << >>
    ELSE LET stops == {i \in 3..Len(url) : url[i] \in {"/", "?", "#"}}
             end == IF stops = {} THEN Len(url)
                    ELSE (CHOOSE i \in stops : \A j \in stops : i <= j) - 1
         IN  SubSeq(url, 3, end)

\* Variant: the application domain is looked for in the whole URL.
is_itandibb_host_WholeUrl(url) == WordIn(AppDomain, url)

\* auth._is_itandibb_host
is_itandibb_host(url) == WordIn(AppDomain, UrlNetloc(url))

\* The page api_post loads when the browser is not on the application.
ListLocation == Location(<< AppDomain >>, << "/", "rent_rooms", "/", "list" >>,
                         << >>)

\* The login page, where a session may still be when login() has returned.
LoginLocation == Location(<< LoginDomain >>, << "/", "login" >>, << >>)

\* Where a browser without a valid session ends when it loads the list page
\* (auth.py:7-8).
LoginRedirect ==
    Location(<< LoginDomain >>, << "/", "login" >>,
             << "?", "redirect_uri=", "https:", "//", AppDomain, "/",
                "callback" >>)

\* The pages on which the driver.get of api_post ends: the list page for a
\* browser with a valid session, the login page for one without.
ListLandings == {ListLocation, LoginRedirect}

(***************************************************************************)
(* ItandiSession.api_post.  Without a driver it raises ItandiAuthError at  *)
(* once.  With one it reads driver.current_url and, when the host is not   *)
(* the application's, loads the list page (driver.get, time.sleep(2))      *)
(* before the fetch, without reading the URL again: landing is the page    *)
(* that request ends on.  Then status 0 and status 401 raise               *)
(* ItandiAuthError and any other status is returned to the caller.  The    *)
(* result carries where the browser is after the call and whether it was   *)
(* sent there.                                                             *)
(***************************************************************************)
api_post(driver_live, loc, landing, raw) ==
    LET navigated == driver_live /\ ~is_itandibb_host(current_url(loc))
        at == [location |-> IF navigated THEN landing ELSE loc,
               navigated |-> navigated]
        Answer(raised, status, data) ==
            [raised |-> raised, status |-> status, data |-> data,
             location |-> at.location, navigated |-> at.navigated]
    IN  IF ~driver_live THEN Answer("ItandiAuthError", 0, EmptyData)
        ELSE IF raw.exc THEN Answer("Exception", 0, EmptyData)
        ELSE IF raw.status = 0 THEN Answer("ItandiAuthError", 0, EmptyData)
        ELSE IF raw.status = 401
        THEN Answer("ItandiAuthError", 401, EmptyData)
        ELSE Answer("none", raw.status, raw.data)

(***************************************************************************)
(* search_properties.  The state of one call:                              *)
(*   page, all_properties   the locals of the same name                    *)
(*   requests               api_post calls issued so far                   *)
(*   outcome                "running", "returned", or the exception that   *)
(*                          left the function                              *)
(*   session_auth           api_post raised ItandiAuthError in this call   *)
(*   last_status            the HTTP status of the last answer, -1 when    *)
(*                          there is none                                  *)
(*   sent_pages             the page number of every request, in order     *)
(*   parsed, more           per page: the listings parsed from it and      *)
(*                          whether either of its two flags was "true"     *)
(*   buildings              the buildings of the last page handed to       *)
(*                          parse_search_response                          *)
(*   location               where the browser of the session is            *)
(*   navigations            the times api_post sent it to the list page    *)
(*   landing                where the server sends a browser that loads    *)
(*                          the list page while this call runs             *)
(***************************************************************************)
SearchInit ==
    [page |-> 1, all_properties |-> << >>, requests |-> 0,
     outcome |-> "running", session_auth |-> FALSE,
     last_status |-> -1,
     sent_pages |-> << >>, parsed |-> << >>, more |-> << >>,
     buildings |-> << >>, location |-> ListLocation, navigations |-> 0,
     landing |-> ListLocation]

\* A search that starts with the browser on the application, or still on
\* the login page with a session that is valid or not.
SearchStarts ==
    {SearchInit}
      \cup {[SearchInit EXCEPT !.location = LoginLocation, !.landing = l] :
               l \in ListLandings}

\* Variant: the loop stops one page early.
LoopExit_OffByOne(page) == page >= max_pages

\* Variant: the loop admits one page more.
LoopExit_OneMore(page) == page > max_pages + 1

\* while page <= max_pages
LoopExit(page) == page > max_pages

SearchPage(s, driver_live, landing, raw) ==
    LET result == api_post(driver_live, s.location, landing, raw)
        sent == [s EXCEPT !.requests = s.requests + 1,
                          !.location = result.location,
                          !.navigations = IF result.navigated
                                          THEN s.navigations + 1
                                          ELSE s.navigations,
                          !.last_status =
                              IF driver_live /\ ~raw.exc THEN raw.status
                              ELSE -1,
                          !.sent_pages = Append(s.sent_pages, s.page)]
    IN  IF result.raised # "none"
        THEN [sent EXCEPT !.outcome = "ItandiSearchError",
                          !.session_auth = (result.raised = "ItandiAuthError")]
        ELSE IF result.status = 401
        THEN [sent EXCEPT !.outcome = "ItandiAuthError"]
        ELSE IF result.status # 200
        THEN [sent EXCEPT !.outcome = "ItandiSearchError"]
        ELSE IF parse_search_response(result.data).raised
        THEN [sent EXCEPT !.outcome = "ValueError",
                          !.buildings = result.data.buildings]
        ELSE LET properties == parse_search_response(result.data).properties
                 has_next == HasNext(result.data)
                 got == [sent EXCEPT
                           !.buildings = result.data.buildings,
                           !.all_properties = s.all_properties \o properties,
                           !.parsed = Append(s.parsed, properties),
                           !.more = Append(s.more,
                                      result.data.meta = "true"
                                        \/ result.data.aggregation = "true")]
             IN  IF ~has_next THEN [got EXCEPT !.outcome = "returned"]
                 ELSE IF LoopExit(s.page + 1)
                      THEN [got EXCEPT !.page = s.page + 1,
                                       !.outcome = "returned"]
                      ELSE [got EXCEPT !.page = s.page + 1]

\* search_properties over the answers raws
RECURSIVE SearchRun(_, _, _)
SearchRun(s, driver_live, raws) ==
    IF s.outcome # "running" \/ raws = << >> THEN s
    ELSE SearchRun(SearchPage(s, driver_live, s.landing, Head(raws)),
                   driver_live, Tail(raws))

(***************************************************************************)
(* The spreadsheet.  A sheet is the set of its (customer_name, room_id)    *)
(* rows; write_pending_properties stores str(room_id) and the loaders read *)
(* it back with _parse_int, which gives the same integer.  A row with an   *)
(* empty name or with room_id 0 is dropped by the loaders.                 *)
(***************************************************************************)
Names == {"A", "B"}

RoomIds == 1..MaxRoomId

Key(name, p) == << name, p.room_id >>

Keys(name, properties) ==
    [i \in 1..Len(properties) |-> Key(name, properties[i])]

Range(seq) == {seq[i] : i \in 1..Len(seq)}

load_seen_properties(read_ok, sheet) ==
    IF ~read_ok THEN {}
    ELSE {row \in sheet : row[1] # "" /\ row[2] # 0}

load_pending_properties(read_ok, sheet) ==
    IF ~read_ok THEN {}
    ELSE {row \in sheet : row[1] # "" /\ row[2] # 0}

write_pending_properties(sheet, customer_name, properties) ==
    sheet \cup Range(Keys(customer_name, properties))

\* "if not entries: return", then one append request with a row for each
\* entry, in order; nothing catches an exception of the request.  A sheet
\* is kept as the set of the (customer_name, room_id) pairs of its rows,
\* which is all the loaders read from it.
mark_properties_seen(sheet, entries, append_ok) ==
    LET rows == {<< entries[i].customer_name, entries[i].room_id >> :
                    i \in 1..Len(entries)}
    IN  [requested |-> entries # << >>,
         raised |-> entries # << >> /\ ~append_ok,
         sheet |-> IF append_ok THEN sheet \cup rows ELSE sheet]

(***************************************************************************)
(* run.main: the exclusion set built from the two loaded sets (line 77)    *)
(* and the listings of one customer that are not in it, in result order    *)
(* (lines 104-109).                                                        *)
(***************************************************************************)
\* Variant: the pending set is left out of the exclusion set.
ExcludeSet_SeenOnly(seen, pending) == seen

\* exclude_set = seen_set | pending_set
ExcludeSet(seen, pending) == seen \cup pending

NewProperties(name, properties, exclude) ==
    LET IsNew(p) == Key(name, p) \notin exclude
    IN  SelectSeq(properties, IsNew)

(***************************************************************************)
(* ItandiSession: driver is "None" or "live"; launched and quits count the *)
(* browsers created by _create_driver and the driver.quit() calls.         *)
(***************************************************************************)
NewSession == [driver |-> "None", launched |-> 0, quits |-> 0]

\* self.driver = _create_driver(): the session holds the new browser from
\* here on, whatever it held before.
SessionCreated(sess) ==
    [sess EXCEPT !.driver = "live", !.launched = sess.launched + 1]

\* Variant: a failed login quits the driver and keeps the reference to it.
SessionDoLogin_KeepsDriver(sess, outcome) ==
    IF outcome = "ok" THEN sess
    ELSE [sess EXCEPT !.quits = sess.quits + 1]

\* The try around _do_login: an exception quits the driver, sets
\* self.driver to None and is raised again.
SessionDoLogin(sess, outcome) ==
    IF outcome = "ok" THEN sess
    ELSE [sess EXCEPT !.driver = "None", !.quits = sess.quits + 1]

\* login() as a whole; "no_driver" is an exception of _create_driver, which
\* leaves the session as it was.
SessionLogin(sess, outcome) ==
    IF outcome = "no_driver" THEN sess
    ELSE SessionDoLogin(SessionCreated(sess), outcome)

\* Variant: close() quits without testing self.driver.
SessionClose_Unguarded(sess) ==
    [sess EXCEPT !.driver = "None", !.quits = sess.quits + 1]

\* close(): quits the driver if there is one.
SessionClose(sess) ==
    IF sess.driver # "None"
    THEN [sess EXCEPT !.driver = "None", !.quits = sess.quits + 1]
    ELSE sess

LoginOutcomes == {"ok", "ItandiAuthError", "Exception", "no_driver"}

(***************************************************************************)
(* Inputs of a run.  A search scenario is the sequence of answers to the   *)
(* page requests of one search_properties call: every answer but the last  *)
(* is a page that announces more results, the last one is a page that      *)
(* announces none, an error status or an exception.                        *)
(***************************************************************************)
CustomerLists == UNION {[1..n -> Names] : n \in 0..MaxCustomers}

StatusCodes == {0, 200, 401, 422, 429, 500}

RoomLists ==
    {<< >>} \cup {<< Room(r) >> : r \in RoomIds}
            \cup {<< RoomBadRent(r) >> : r \in RoomIds}

MorePages == {Raw(200, Data(<< Building(1, rl) >>, "true", "absent")) :
                 rl \in RoomLists}

LastPages == {Raw(200, Data(<< Building(1, rl) >>, "false", "absent")) :
                 rl \in RoomLists}
               \cup {Raw(401, EmptyData), Raw(429, EmptyData), RawException}

Scenarios ==
    UNION {{raws \in [1..n -> MorePages \cup LastPages] :
               /\ raws[n] \in LastPages
               /\ \A i \in 1..(n - 1) : raws[i] \in MorePages} :
           n \in 1..MaxScenarioPages}

\* Variant: a call that fails after it parsed listings returns them.
SearchResult_Partial(s) ==
    [outcome |-> IF s.all_properties # << >> THEN "returned" ELSE s.outcome,
     session_auth |-> s.session_auth,
     properties |-> s.all_properties,
     posted |-> s.requests > 0]

\* What a search_properties call leaves to main(): the returned list, or the
\* exception raised, and whether api_post was called.
SearchResult(s) ==
    [outcome |-> s.outcome,
     session_auth |-> s.session_auth,
     properties |-> IF s.outcome = "returned" THEN s.all_properties
                    ELSE << >>,
     posted |-> s.requests > 0]

\* The results of search_properties over all scenarios, for a session with
\* (TRUE) and without (FALSE) a driver.
SearchResults ==
    [driver_live \in BOOLEAN |->
        {SearchResult(SearchRun(s, driver_live, raws)) :
            s \in SearchStarts, raws \in Scenarios}]

InitialSeen == {{<< "A", 1 >>, << "", 2 >>}}

InitialPending == {{<< "A", 1 >>, << "A", 0 >>}}

(***************************************************************************)
(* discord._post_with_retry.  A response to a POST is                      *)
(*   [kind, status, body]  kind "sent": the server answered with status;   *)
(*                         kind "transport": requests.post raised          *)
(*   body   what a 429 answer carries: "number" (JSON with a numeric       *)
(*          retry_after, the field retry_after), "absent" (JSON without    *)
(*          the key), "not_number" (JSON whose retry_after is no number),  *)
(*          "not_json"                                                     *)
(* The result of a call is its sequence of events (POSTs and sleeps), the  *)
(* number of lines logged as errors and whether an exception left it.      *)
(***************************************************************************)
RetryAfterValues == {2}

DefaultRetryAfter == 5

Sent(status) ==
    [kind |-> "sent", status |-> status, body |-> "absent", retry_after |-> 0]

RateLimited(body, secs) ==
    [kind |-> "sent", status |-> 429, body |-> body, retry_after |-> secs]

Transport ==
    [kind |-> "transport", status |-> 0, body |-> "absent", retry_after |-> 0]

PostResponses ==
    {Sent(st) : st \in {200, 204, 400, 500}}
      \cup {RateLimited("number", secs) : secs \in RetryAfterValues}
      \cup {RateLimited(body, 0) :
                body \in {"absent", "not_number", "not_json"}}
      \cup {Transport}

PostEvent == [op |-> "post", secs |-> 0]

SleepEvent(secs) == [op |-> "sleep", secs |-> secs]

\* raise_for_status raises HTTPError for the 4xx and 5xx statuses.
RaisesForStatus(resp) == resp.status >= 400 /\ resp.status < 600

\* The retry of a rate-limited POST: one POST whose failure is logged.
RetryEvents(retry) == << PostEvent >>

post_with_retry(first, retry) ==
    IF first.kind = "transport"
    THEN [events |-> << PostEvent >>, errors |-> 1, raised |-> FALSE]
    ELSE IF ~RaisesForStatus(first)
    THEN [events |-> << PostEvent >>, errors |-> 0, raised |-> FALSE]
    ELSE IF first.status # 429
    THEN [events |-> << PostEvent >>, errors |-> 1, raised |-> FALSE]
    ELSE IF first.body = "not_json"
    THEN \* exc.response.json() raises inside the except clause
         [events |-> << PostEvent >>, errors |-> 1, raised |-> TRUE]
    ELSE IF first.body = "not_number"
    THEN \* time.sleep(retry_after) raises inside the except clause
         [events |-> << PostEvent >>, errors |-> 1, raised |-> TRUE]
    ELSE LET retry_after == IF first.body = "absent" THEN DefaultRetryAfter
                            ELSE first.retry_after
         IN  [events |-> << PostEvent, SleepEvent(retry_after) >>
                           \o RetryEvents(retry),
              errors |-> IF retry.kind = "transport" \/ RaisesForStatus(retry)
                         THEN 2 ELSE 1,
              raised |-> FALSE]

\* send_error_notification: one POST; a first answer with status 400 is
\* followed by a second POST of the message with a thread_name; a failure
\* of either is printed and not raised.
send_error_notification(first, second) ==
    IF first.kind = "transport"
    THEN [events |-> << PostEvent >>, errors |-> 1, raised |-> FALSE]
    ELSE IF first.status # 400
    THEN [events |-> << PostEvent >>,
          errors |-> IF RaisesForStatus(first) THEN 1 ELSE 0,
          raised |-> FALSE]
    ELSE [events |-> << PostEvent, PostEvent >>,
          errors |-> IF second.kind = "transport" \/ RaisesForStatus(second)
                     THEN 1 ELSE 0,
          raised |-> FALSE]

(***************************************************************************)
(* ItandiSession.login and _do_login.  The state of one call:              *)
(*   stage       "idle", "create", "entry", "form", "submit", "wait" or    *)
(*               "done"                                                    *)
(*   location    where the browser is (NoLocation before the entry page)   *)
(*   cookie      a session cookie is present in the browser                *)
(*   is_itandibb the result of _is_itandibb_host at the entry page         *)
(*   entry       the decision taken on the entry page: "none",             *)
(*               "logged_in", "unexpected" or "login_page"                 *)
(*   timeout     the decision taken after the wait timed out: "none",      *)
(*               "error_page", "login_page" or "unexpected"                *)
(*   filled      the e-mail and password fields were filled in             *)
(*   submits     clicks on the submit button                               *)
(*   text_found  the wait found an element with the expected text          *)
(*   outcome     "running", "ok" or the exception that left login()        *)
(*   session     the driver of the ItandiSession                           *)
(*   closed      close() was called after login() ended                    *)
(*   post        the exception of an api_post call after login() ended,    *)
(*               "none" if it raised none, "not_called" before the call    *)
(***************************************************************************)
BrowserCall(stage) ==
    [stage |-> stage, location |-> NoLocation, cookie |-> FALSE,
     is_itandibb |-> FALSE, entry |-> "none", timeout |-> "none",
     filled |-> FALSE, submits |-> 0, text_found |-> FALSE,
     outcome |-> "running", session |-> NewSession, closed |-> FALSE,
     post |-> "not_called"]

BrowserIdle == BrowserCall("idle")

\* _do_login, lines 217-225: the decision on the URL of the entry page.
EntryDecision(url) ==
    IF is_itandibb_host(url) THEN "logged_in"
    ELSE IF ~WordIn(LoginDomain, url) THEN "unexpected"
    ELSE "login_page"

\* _do_login, lines 280-304: the decision after the wait timed out.
TimeoutDecision(title_error, url) ==
    IF title_error THEN "error_page"
    ELSE IF WordIn(LoginDomain, url) /\ WordIn("login", url) THEN "login_page"
    ELSE "unexpected"

\* Variant: after a failed submit the form is submitted once more.
LoginEnds_Resubmit(b, outcome) ==
    IF outcome = "ItandiAuthError" /\ b.submits = 1
    THEN [b EXCEPT !.stage = "submit"]
    ELSE [b EXCEPT !.stage = "done", !.outcome = outcome,
                   !.session = SessionDoLogin(b.session, outcome)]

\* login() ends after _do_login: the driver is kept on success and quit on
\* an exception.
LoginEnds(b, outcome) ==
    [b EXCEPT !.stage = "done", !.outcome = outcome,
              !.session = SessionDoLogin(b.session, outcome)]

\* The first answers after which _post_with_retry sends the retry.
Retried(first) ==
    first.status = 429 /\ first.body \in {"number", "absent"}

NoCall == [events |-> << >>, errors |-> 0, raised |-> FALSE]

NoResponse == Sent(0)

(***************************************************************************)
(* discord.send_property_notification.  The state of one call:             *)
(*   stage       "idle", "start", "listings", "bulk" or "done"; "error"    *)
(*               is the start of a send_error_notification call            *)
(*   n, gas      len(properties); gas_webapp_url is not empty              *)
(*   thread      created_thread_id: "None", "given" (the argument) or      *)
(*               "created" (the channel_id of the header message)          *)
(*   thread_posts  POSTs of the header message                             *)
(*   idx         index of the next listing, from 1                         *)
(*   attempted   indices of the listings passed to _post_with_retry        *)
(*   first, retry, last   the answers to the last _post_with_retry call    *)
(*               and its result                                            *)
(*   waits       time.sleep(1) calls between listings                      *)
(*   bulk_posts  _post_with_retry calls for the approve-all link           *)
(*   outcome     "running", "returned" or "raised"                         *)
(*   error_first, error_second, error_call   the answers to the POSTs of   *)
(*               a send_error_notification call and its result             *)
(***************************************************************************)
DiscordCall(stage, n, gas, thread) ==
    [stage |-> stage, n |-> n, gas |-> gas, thread |-> thread,
     thread_posts |-> 0, idx |-> 1, attempted |-> << >>,
     first |-> NoResponse, retry |-> NoResponse, last |-> NoCall,
     waits |-> 0, bulk_posts |-> 0, outcome |-> "running",
     error_first |-> NoResponse, error_second |-> NoResponse,
     error_call |-> NoCall]

DiscordIdle == DiscordCall("idle", 0, FALSE, "None")

\* The answers to the POST of the header message: 200 with a channel_id,
\* 200 without one, or a failure (error status, transport error, a body
\* that is not JSON).
ThreadResponses == {"channel_id", "no_channel_id", "failed"}

(***************************************************************************)
(* The configuration read from the environment (config.py:6-9): for each   *)
(* input, whether it is present and well-formed.  The e-mail and the       *)
(* password of itandi BB are one input.                                    *)
(***************************************************************************)
\* the values of the environment variable FORCE_NOTIFY; "" when it is unset
ForceNotifyValues == {"", "1", "true"}

\* Variant: every non-empty value switches the exclusion off.
ForceNotify_AnyValue(value) == value # ""

\* os.environ.get("FORCE_NOTIFY", "") == "1"
ForceNotify(value) == value = "1"

\* The log of a run: the kinds of the errors that were caught and not raised
\* again, and the kinds for which a line was printed.
NoLog == [caught |-> {}, printed |-> {}]

\* an error caught by a handler that prints a line
Logged(l, kind) ==
    [caught |-> l.caught \cup {kind}, printed |-> l.printed \cup {kind}]

\* an error caught by a handler that prints nothing
Silent(l, kind) == [l EXCEPT !.caught = l.caught \cup {kind}]

Configs ==
    [service_account_json : BOOLEAN, spreadsheet_id : BOOLEAN,
     credentials : BOOLEAN]

ValidConfig ==
    [service_account_json |-> TRUE, spreadsheet_id |-> TRUE,
     credentials |-> TRUE]

(***************************************************************************)
(* search.resolve_station_ids and the station filter of the search         *)
(* payload.  A station name is a text; a station of the lookup answer is   *)
(* [id, label, prefecture_id].  The answer to a lookup is                  *)
(* [raised, status, stations]: ItandiSession.api_get raised, or answered   *)
(* with status and, in the body, the list stations.                        *)
(***************************************************************************)
StationNames == {<<"s">>, <<" ", "s">>, <<" ">>, <<"k", "s">>}

StationNameLists == UNION {[1..n -> StationNames] : n \in 0..MaxStationNames}

Prefectures == {"None", "tokyo", "unlisted"}

\* PREFECTURE_IDS.get(prefecture) if prefecture else None; 0 stands for None
PrefectureId(prefecture) == IF prefecture = "tokyo" THEN 13 ELSE 0

Station(id, label, prefecture_id) ==
    [id |-> id, label |-> label, prefecture_id |-> prefecture_id]

\* the stations the lookup knows: one of the name "s" in the prefecture 13,
\* one whose name contains "s", one of the name "s" in the prefecture 27
StationCatalogue ==
    << Station(1, <<"s">>, 13), Station(2, <<"k", "s">>, 13),
       Station(3, <<"s">>, 27) >>

\* the entries of a sequence at the positions of a set, in order
RECURSIVE Pick(_, _)
Pick(seq, positions) ==
    IF seq = << >> THEN << >>
    ELSE LET rest == Pick(SubSeq(seq, 1, Len(seq) - 1), positions)
         IN  IF Len(seq) \in positions THEN Append(rest, seq[Len(seq)])
             ELSE rest

StationAnswers ==
    {[raised |-> FALSE, status |-> 200,
      stations |-> Pick(StationCatalogue, ps)] :
        ps \in SUBSET (1..Len(StationCatalogue))}
      \cup {[raised |-> FALSE, status |-> 500, stations |-> << >>],
            [raised |-> TRUE, status |-> 0, stations |-> << >>]}

\* ItandiSession.api_get: raises without a driver, otherwise what the
\* request gave
api_get(driver_live, answer) ==
    IF ~driver_live THEN [raised |-> TRUE, status |-> 0, stations |-> << >>]
    ELSE answer

\* Variant: a station is taken when its label contains the name.
LabelMatches_Contains(label, name) ==
    \E i \in 1..Len(label) :
        \E j \in i..Len(label) : SubSeq(label, i, j) = name

\* st.get("label") != name
LabelMatches(label, name) == label = name

\* the identifiers taken from one answered lookup, in answer order
MatchingIds(stations, name, prefecture_id) ==
    LET taken == SelectSeq(stations,
                     LAMBDA st : /\ LabelMatches(st.label, name)
                                 /\ (prefecture_id = 0
                                        \/ st.prefecture_id = prefecture_id))
    IN  [k \in 1..Len(taken) |-> taken[k].id]

\* one search_properties call up to the payload:
\*   names, prefecture   criteria.stations and criteria.prefecture
\*   driver_live         the session has a driver
\*   i                   the position of the next name of the loop
\*   all_ids             the local of the same name
\*   lookups             [name, stations] of every lookup answered with 200
\*   requests, warnings  the lookups issued and the [WARN] lines printed
\*   stage               "start", "resolving", "resolved", "payload"
\*   filter              the station_id:in entry of the payload
StationCall(names, prefecture, driver_live) ==
    [names |-> names, prefecture |-> prefecture,
     driver_live |-> driver_live, i |-> 1, all_ids |-> << >>,
     lookups |-> << >>, requests |-> 0, warnings |-> 0, stage |-> "start",
     filter |-> [present |-> FALSE, ids |-> << >>]]

StationIdle == StationCall(<< >>, "None", FALSE)

\* one round of the loop over station_names
ResolveStep(c, answer) ==
    LET name == Strip(c.names[c.i])
        next == [c EXCEPT !.i = c.i + 1]
        result == api_get(c.driver_live, answer)
        asked == [next EXCEPT !.requests = c.requests + 1]
    IN  IF name = << >> THEN next
        ELSE IF result.raised \/ result.status # 200
        THEN [asked EXCEPT !.warnings = c.warnings + 1]
        ELSE [asked EXCEPT
                !.lookups = Append(c.lookups,
                              [name |-> name, stations |-> result.stations]),
                !.all_ids = c.all_ids \o
                    MatchingIds(result.stations, name,
                                PrefectureId(c.prefecture))]

\* build_search_payload: if station_ids: filter["station_id:in"] = station_ids
StationFilter(station_ids) ==
    IF station_ids # << >> THEN [present |-> TRUE, ids |-> station_ids]
    ELSE [present |-> FALSE, ids |-> << >>]

\* one call of a parser: fn is "none" before the call
ParseCall(text) == [fn |-> "none", text |-> text, result |-> Returned(0, 1)]

ParseIdle == ParseCall(<< >>)

VARIABLES
    pc,                 \* position in main()
    webhook,            \* DISCORD_WEBHOOK_URL is set
    force_notify,       \* the value of FORCE_NOTIFY in the environment
    seen_sheet,         \* rows of the seen sheet
    pending_sheet,      \* rows of the pending sheet
    customers,          \* names of the loaded criteria rows, in order
    seen_set,
    pending_set,
    exclude_set,
    itandi,             \* the ItandiSession
    idx,                \* position of the for loop over customers
    search,             \* the locals of a running search_properties call
    new_properties,
    exit_status,        \* -1 while the process runs
    login_result,       \* "none" before login() was called
    searched,           \* customers passed to search_properties, in order
    written,            \* keys appended to the pending sheet in this run
    notified,           \* keys passed to send_property_notification
    renotified,         \* keys passed to it more than once in this run
    skipped,            \* keys of search results dropped by the filter
    posted,             \* api_post was called in this run
    error_notifications,\* send_error_notification calls
    errors,             \* the steps that raised an error in this run
    notified_prior,     \* keys notified in an earlier run without FORCE_NOTIFY
    run,                \* number of the run
    discord,            \* a send_property_notification call
    browser,            \* a login() call, step by step
    config,             \* which configuration inputs are present and valid
    network,            \* the kinds of network activity of this run
    parse,              \* a call of one of the two text parsers
    stations,           \* station resolution of one search_properties call
    returned,           \* keys of the listings the searches returned
    log,                \* the errors caught so far and the log lines printed for them
    session_calls       \* the login() and close() calls made on one session, in order

vars == << pc, webhook, force_notify, seen_sheet, pending_sheet, customers,
           seen_set, pending_set, exclude_set, itandi, idx, search,
           new_properties, exit_status, login_result, searched, written,
           notified, renotified, skipped, posted, error_notifications,
           errors, notified_prior, run, discord, browser, config, network,
           parse, stations, returned, log, session_calls >>

RunStart ==
    /\ pc = "sheets_init"
    /\ customers = << >>
    /\ seen_set = {}
    /\ pending_set = {}
    /\ exclude_set = {}
    /\ itandi = NewSession
    /\ idx = 0
    /\ search = SearchInit
    /\ new_properties = << >>
    /\ exit_status = -1
    /\ login_result = "none"
    /\ searched = << >>
    /\ written = {}
    /\ notified = {}
    /\ renotified = {}
    /\ skipped = {}
    /\ posted = FALSE
    /\ error_notifications = 0
    /\ errors = {}
    /\ network = {}

Init ==
    /\ RunStart
    /\ session_calls = << >>
    /\ log = NoLog
    /\ returned = {}
    /\ stations = StationIdle
    /\ parse = ParseIdle
    /\ webhook \in BOOLEAN
    /\ force_notify \in ForceNotifyValues
    /\ seen_sheet \in InitialSeen
    /\ pending_sheet \in InitialPending
    /\ notified_prior = {}
    /\ run = 1
    /\ discord = DiscordIdle
    /\ browser = BrowserIdle
    /\ config \in Configs

(***************************************************************************)
(* Steps of main().                                                        *)
(***************************************************************************)
Exit(status) ==
    /\ pc' = "exited"
    /\ exit_status' = status

NextCustomer ==
    /\ idx' = idx + 1
    /\ pc' = IF idx + 1 > Len(customers) THEN "close" ELSE "customer"

\* Variant: the failure is never reported.
NotifyError_Never(count, hook) == count

\* send_error_notification is called only with a webhook URL configured.
NotifyError(count, hook) == IF hook THEN count + 1 ELSE count

ErrorNotification ==
    error_notifications' = NotifyError(error_notifications, webhook)

\* Variant: the loop body has no "except Exception" clause.
CaughtInLoop_SearchErrorOnly(exception) == exception = "ItandiSearchError"

\* The handlers of the loop body: except ItandiSearchError, except Exception
\* (ItandiAuthError is a subclass of Exception).
CaughtInLoop(exception) ==
    exception \in {"ItandiSearchError", "ItandiAuthError", "ValueError",
                   "Exception"}

\* An exception reaches the handlers of the loop body: it is reported and
\* the loop goes on; an exception no handler takes ends the process.
LoopHandler(exception, step) ==
    IF CaughtInLoop(exception)
    THEN /\ ErrorNotification
         /\ errors' = errors \cup {step}
         /\ NextCustomer
         /\ UNCHANGED exit_status
    ELSE /\ Exit(1)
         /\ errors' = errors \cup {step}
         /\ UNCHANGED << idx, error_notifications >>

\* Variant: a run in which a customer raised an error exits with status 1.
FinalStatus_ErrorsFail(errs) == IF errs = {} THEN 0 ELSE 1

\* main() returns normally: the interpreter exits with status 0.
FinalStatus(errs) == 0

\* The keys that occur at more than one position of a list of listings.
Repeated(name, properties) ==
    {Key(name, properties[i]) : i \in
        {k \in 1..Len(properties) :
            \E j \in 1..Len(properties) :
                j # k /\ properties[j].room_id = properties[k].room_id}}

\* 1. get_sheets_service(): json.loads of the service-account JSON and the
\*    credentials built from it, without a request; a failure is fatal.
SheetsInit ==
    /\ pc = "sheets_init"
    /\ \E ok \in BOOLEAN :
         /\ ok => config.service_account_json
         /\ IF ok
            THEN /\ pc' = "load_criteria"
                 /\ UNCHANGED << exit_status, errors, log >>
            ELSE /\ Exit(1)
                 /\ errors' = errors \cup {"sheets"}
                 /\ log' = Logged(log, "sheets")
    /\ UNCHANGED << webhook, force_notify, seen_sheet, pending_sheet,
                    customers, seen_set, pending_set, exclude_set, itandi,
                    idx, search, new_properties, login_result, searched,
                    written, notified, renotified, skipped, posted,
                    error_notifications, notified_prior, run, discord,
                    browser, config, network, parse, stations, returned,
                    session_calls >>

\* 2. load_customer_criteria(): a request for the criteria sheet, which
\*    fails without a spreadsheet id; a failure is fatal, an empty list
\*    returns.
LoadCriteria ==
    /\ pc = "load_criteria"
    /\ network' = network \cup {"sheets"}
    /\ \/ /\ Exit(1)
          /\ errors' = errors \cup {"criteria"}
          /\ log' = Logged(log, "criteria")
          /\ UNCHANGED customers
       \/ \E cs \in CustomerLists :
            /\ config.spreadsheet_id
            /\ customers' = cs
            /\ IF cs = << >>
               THEN Exit(FinalStatus(errors))
               ELSE /\ pc' = "load_seen"
                    /\ UNCHANGED exit_status
            /\ UNCHANGED << errors, log >>
    /\ UNCHANGED << webhook, force_notify, seen_sheet, pending_sheet,
                    seen_set, pending_set, exclude_set, itandi, idx, search,
                    new_properties, login_result, searched, written,
                    notified, renotified, skipped, posted,
                    error_notifications, notified_prior, run, discord,
                    browser, config, parse, stations, returned,
                    session_calls >>

\* 3. FORCE_NOTIFY skips both loads; otherwise the seen sheet is read.  A
\*    failed read is caught inside load_seen_properties, which prints
\*    nothing and returns the empty set.
LoadSeen ==
    /\ pc = "load_seen"
    /\ IF ForceNotify(force_notify)
       THEN /\ seen_set' = {}
            /\ pending_set' = {}
            /\ exclude_set' = ExcludeSet({}, {})
            /\ pc' = "login"
            /\ UNCHANGED << network, log >>
       ELSE /\ \E read_ok \in BOOLEAN :
                 /\ seen_set' = load_seen_properties(read_ok, seen_sheet)
                 /\ log' = IF read_ok THEN log ELSE Silent(log, "seen_read")
            /\ pc' = "load_pending"
            /\ network' = network \cup {"sheets"}
            /\ UNCHANGED << pending_set, exclude_set >>
    /\ UNCHANGED << webhook, force_notify, seen_sheet, pending_sheet,
                    customers, itandi, idx, search, new_properties,
                    exit_status, login_result, searched, written, notified,
                    renotified, skipped, posted, error_notifications, errors,
                    notified_prior, run, discord, browser, config, parse,
                    stations, returned, session_calls >>

\* 3. The pending sheet is read and the exclusion set is built.  A failed
\*    read is caught inside load_pending_properties, which prints nothing.
LoadPending ==
    /\ pc = "load_pending"
    /\ \E read_ok \in BOOLEAN :
         /\ pending_set' = load_pending_properties(read_ok, pending_sheet)
         /\ log' = IF read_ok THEN log ELSE Silent(log, "pending_read")
    /\ exclude_set' = ExcludeSet(seen_set, pending_set')
    /\ pc' = "login"
    /\ network' = network \cup {"sheets"}
    /\ UNCHANGED << webhook, force_notify, seen_sheet, pending_sheet,
                    customers, seen_set, itandi, idx, search, new_properties,
                    exit_status, login_result, searched, written, notified,
                    renotified, skipped, posted, error_notifications, errors,
                    notified_prior, run, discord, browser, config, parse,
                    stations, returned, session_calls >>

\* 4. ItandiSession(...).login(): nothing reads the e-mail and password
\*    before the login form is filled in, and login() succeeds without them
\*    when the entry page lands on the application.  ItandiAuthError is
\*    reported and fatal; any other exception leaves main() uncaught.
Login ==
    /\ pc = "login"
    /\ \E outcome \in LoginOutcomes :
         /\ login_result' = outcome
         /\ network' = network
              \cup (IF outcome = "no_driver" THEN {} ELSE {"browser"})
              \cup (IF outcome = "ItandiAuthError" /\ webhook
                    THEN {"webhook"} ELSE {})
         /\ IF outcome = "ok"
            THEN /\ itandi' = SessionLogin(itandi, outcome)
                 /\ idx' = 1
                 /\ pc' = "customer"
                 /\ UNCHANGED << exit_status, error_notifications, errors,
                                 log >>
            ELSE IF outcome = "ItandiAuthError"
            THEN /\ itandi' = SessionClose(SessionLogin(itandi, outcome))
                 /\ ErrorNotification
                 /\ log' = Logged(log, "login")
                 /\ Exit(1)
                 /\ errors' = errors \cup {"login"}
                 /\ UNCHANGED idx
            ELSE /\ itandi' = SessionLogin(itandi, outcome)
                 /\ Exit(1)
                 /\ errors' = errors \cup {"login"}
                 /\ UNCHANGED << idx, error_notifications, log >>
    /\ UNCHANGED << webhook, force_notify, seen_sheet, pending_sheet,
                    customers, seen_set, pending_set, exclude_set, search,
                    new_properties, searched, written, notified, renotified,
                    skipped, posted, notified_prior, run, discord, browser,
                    config, parse, stations, returned, session_calls >>

\* The new listings of one customer (run.py:111-152): the image lookup and
\* the pending write, whose failures are printed, the notification when a
\* webhook is configured, and the additions to the exclusion set.
HandleNew(name, new, keys, enrich_ok, write_ok) ==
    LET e == IF enrich_ok THEN log ELSE Logged(log, "enrich")
        l == IF write_ok THEN e ELSE Logged(e, "pending_write")
    IN  /\ pending_sheet' =
             IF write_ok
             THEN write_pending_properties(pending_sheet, name, new)
             ELSE pending_sheet
        /\ written' = IF write_ok THEN written \cup keys ELSE written
        /\ IF webhook
           THEN /\ notified' = notified \cup keys
                /\ renotified' = renotified \cup (keys \cap notified)
                                            \cup Repeated(name, new)
                /\ \/ /\ LoopHandler("Exception", "notify")
                      /\ log' = Logged(l, "notify")
                      /\ UNCHANGED exclude_set
                   \/ /\ exclude_set' = exclude_set \cup keys
                      /\ NextCustomer
                      /\ log' = l
                      /\ UNCHANGED << exit_status, error_notifications,
                                      errors >>
           ELSE /\ exclude_set' = exclude_set \cup keys
                /\ NextCustomer
                /\ log' = l
                /\ UNCHANGED << notified, renotified, exit_status,
                                error_notifications, errors >>

\* 5. One iteration of the loop over the customers: search_properties, the
\*    filter on the exclusion set and, for a non-empty rest,
\*    enrich_properties_with_images, write_pending_properties (exceptions of
\*    both are caught and logged; the first changes nothing main() reads),
\*    send_property_notification when a webhook is configured, and the
\*    update of the exclusion set.  An exception of the search or of the
\*    notifier goes to the handlers of the loop body; the one of the notifier
\*    gets there before the exclusion set is updated.
HandleResult(s) ==
         LET name == customers[idx]
             new == NewProperties(name, s.properties, exclude_set)
             keys == Range(Keys(name, new))
         IN  /\ network' = network
                  \cup (IF s.posted /\ itandi.driver # "None"
                        THEN {"browser"} ELSE {})
                  \cup (IF s.outcome = "returned" /\ new # << >>
                        THEN {"sheets"} ELSE {})
                  \cup (IF webhook /\ (s.outcome # "returned" \/ new # << >>)
                        THEN {"webhook"} ELSE {})
             /\ IF s.outcome # "returned"
                THEN /\ LoopHandler(s.outcome,
                                    IF s.session_auth THEN "session_auth"
                                    ELSE "search")
                     /\ log' = IF CaughtInLoop(s.outcome)
                               THEN Logged(log, "search") ELSE log
                     /\ UNCHANGED << new_properties, pending_sheet, written,
                                     notified, renotified, skipped,
                                     exclude_set >>
                ELSE /\ new_properties' = new
                     /\ skipped' = skipped \cup
                          (Range(Keys(name, s.properties)) \ keys)
                     /\ IF new = << >>
                        THEN /\ NextCustomer
                             /\ UNCHANGED << pending_sheet, written, notified,
                                             renotified, exclude_set,
                                             exit_status, error_notifications,
                                             errors, log >>
                        ELSE \E enrich_ok, write_ok \in BOOLEAN :
                                 HandleNew(name, new, keys, enrich_ok,
                                           write_ok)

\* The call of search_properties for the customer at idx with the result s,
\* and the rest of the loop body.
ProcessResult(s) ==
    /\ searched' = Append(searched, idx)
    /\ posted' = (posted \/ s.posted)
    /\ returned' = returned \cup Range(Keys(customers[idx], s.properties))
    /\ HandleResult(s)

\* The loop body for the customer at idx, over every result of its search.
ProcessCustomer ==
    /\ pc = "customer"
    /\ \E s \in SearchResults[itandi.driver # "None"] : ProcessResult(s)
    /\ UNCHANGED << webhook, force_notify, seen_sheet, customers, seen_set,
                    pending_set, itandi, search, login_result,
                    notified_prior, run, discord, browser, config, parse,
                    stations, session_calls >>

\* 6. itandi.close() and the normal end of main().
Close ==
    /\ pc = "close"
    /\ itandi' = SessionClose(itandi)
    /\ Exit(FinalStatus(errors))
    /\ UNCHANGED << webhook, force_notify, seen_sheet, pending_sheet,
                    customers, seen_set, pending_set, exclude_set, idx,
                    search, new_properties, login_result, searched, written,
                    notified, renotified, skipped, posted,
                    error_notifications, errors, notified_prior, run,
                    discord, browser, config, network, parse, stations,
                    returned, log, session_calls >>

Next ==
    \/ SheetsInit
    \/ LoadCriteria
    \/ LoadSeen
    \/ LoadPending
    \/ Login
    \/ ProcessCustomer
    \/ Close

Spec == Init /\ [][Next]_vars

TypeOK ==
    /\ pc \in {"sheets_init", "load_criteria", "load_seen", "load_pending",
               "login", "customer", "close", "exited", "search_properties",
               "send_property_notification"}
    /\ exit_status \in {-1, 0, 1}
    /\ idx \in 0..(MaxCustomers + 1)
    /\ written \subseteq Names \X RoomIds
    /\ notified \subseteq Names \X RoomIds
    /\ renotified \subseteq notified

(***************************************************************************)
(* The next scheduled run: a new process against the same spreadsheet.     *)
(***************************************************************************)
NextRun ==
    /\ pc = "exited"
    /\ run < MaxRuns
    /\ run' = run + 1
    /\ notified_prior' = IF ForceNotify(force_notify) THEN notified_prior
                         ELSE notified_prior \cup notified
    /\ force_notify' \in ForceNotifyValues
    /\ pc' = "sheets_init"
    /\ customers' = << >>
    /\ seen_set' = {}
    /\ pending_set' = {}
    /\ exclude_set' = {}
    /\ itandi' = NewSession
    /\ idx' = 0
    /\ search' = SearchInit
    /\ new_properties' = << >>
    /\ exit_status' = -1
    /\ login_result' = "none"
    /\ searched' = << >>
    /\ written' = {}
    /\ notified' = {}
    /\ renotified' = {}
    /\ skipped' = {}
    /\ posted' = FALSE
    /\ error_notifications' = 0
    /\ errors' = {}
    /\ network' = {}
    /\ returned' = {}
    /\ log' = NoLog
    /\ UNCHANGED << webhook, seen_sheet, pending_sheet, discord, browser,
                    config, parse, stations, session_calls >>

NextRuns == Next \/ NextRun

SpecRuns == Init /\ [][NextRuns]_vars

(***************************************************************************)
(* search_properties on its own: one api_post per step, for a session with *)
(* or without a driver and any response to each page request.              *)
(***************************************************************************)
ScenarioBuildings ==
    << Building(10, << Room(1) >>),
       [isdict |-> FALSE, property_id |-> 0, rooms |-> << >>],
       Building(30, << >>),
       Building(20, << Room(2), Room(0),
                       [isdict |-> FALSE, property_id |-> 9], Room(3) >>) >>

\* a page with a room whose rent text, and one whose area text, is malformed
MalformedBuildings ==
    << Building(10, << Room(1) >>),
       Building(50, << Room(0), RoomBadRent(0), RoomBadRent(5) >>) >>

MalformedAreaBuildings ==
    << Building(60, << Room(6), RoomBadArea(7) >>) >>

OverfullBuildings ==
    << Building(40, [i \in 1..(PageLimit + 1) |-> Room(i)]) >>

SearchRaws ==
    {Raw(200, Data(b, m, a)) :
        b \in {ScenarioBuildings, OverfullBuildings, MalformedBuildings,
               MalformedAreaBuildings},
        m \in FlagValues, a \in FlagValues}
      \cup {Raw(st, EmptyData) : st \in StatusCodes \ {200}}
      \cup {RawException}

InitSearch ==
    /\ pc = "search_properties"
    /\ session_calls = << >>
    /\ log = NoLog
    /\ returned = {}
    /\ stations = StationIdle
    /\ parse = ParseIdle
    /\ itandi \in {NewSession, SessionLogin(NewSession, "ok")}
    /\ search \in SearchStarts
    /\ customers = << >>
    /\ seen_set = {}
    /\ pending_set = {}
    /\ exclude_set = {}
    /\ idx = 0
    /\ new_properties = << >>
    /\ exit_status = -1
    /\ login_result = "none"
    /\ searched = << >>
    /\ written = {}
    /\ notified = {}
    /\ renotified = {}
    /\ skipped = {}
    /\ posted = FALSE
    /\ error_notifications = 0
    /\ errors = {}
    /\ webhook = FALSE
    /\ force_notify = ""
    /\ seen_sheet = {}
    /\ pending_sheet = {}
    /\ notified_prior = {}
    /\ run = 1
    /\ discord = DiscordIdle
    /\ browser = BrowserIdle
    /\ config = ValidConfig
    /\ network = {}

SearchRequest ==
    /\ pc = "search_properties"
    /\ search.outcome = "running"
    /\ \E raw \in SearchRaws :
         search' = SearchPage(search, itandi.driver # "None",
                              search.landing, raw)
    /\ network' = network
         \cup (IF itandi.driver # "None" THEN {"browser"} ELSE {})
    /\ posted' = TRUE
    /\ returned' =
         IF idx \in 1..Len(customers) /\ search'.outcome = "returned"
         THEN returned \cup Range(Keys(customers[idx],
                                       search'.all_properties))
         ELSE returned
    /\ UNCHANGED << pc, webhook, force_notify, seen_sheet, pending_sheet,
                    customers, seen_set, pending_set, exclude_set, itandi,
                    idx, new_properties, exit_status, login_result, searched,
                    written, notified, renotified, skipped,
                    error_notifications, errors, notified_prior, run,
                    discord, browser, config, parse, stations, log,
                    session_calls >>

NextSearch == SearchRequest

SpecSearch == InitSearch /\ [][NextSearch]_vars

(***************************************************************************)
(* send_property_notification on its own, for 0..MaxListings listings,     *)
(* with and without a thread id and an approve-all link, and any answer to *)
(* each POST.                                                              *)
(***************************************************************************)
MainIdle ==
    /\ customers = << >>
    /\ seen_set = {}
    /\ pending_set = {}
    /\ exclude_set = {}
    /\ itandi = NewSession
    /\ idx = 0
    /\ search = SearchInit
    /\ new_properties = << >>
    /\ exit_status = -1
    /\ login_result = "none"
    /\ searched = << >>
    /\ written = {}
    /\ notified = {}
    /\ renotified = {}
    /\ skipped = {}
    /\ posted = FALSE
    /\ error_notifications = 0
    /\ errors = {}
    /\ webhook = TRUE
    /\ force_notify = ""
    /\ seen_sheet = {}
    /\ pending_sheet = {}
    /\ notified_prior = {}
    /\ run = 1
    /\ config = ValidConfig
    /\ network = {}

mainvars == << webhook, force_notify, seen_sheet, pending_sheet, customers,
              seen_set, pending_set, exclude_set, itandi, idx, search,
              new_properties, exit_status, login_result, searched, written,
              notified, renotified, skipped, posted, error_notifications,
              errors, notified_prior, run, config >>

InitNotify ==
    /\ pc = "send_property_notification"
    /\ session_calls = << >>
    /\ log = NoLog
    /\ returned = {}
    /\ stations = StationIdle
    /\ parse = ParseIdle
    /\ MainIdle
    /\ browser = BrowserIdle
    /\ \/ \E n \in 0..MaxListings, gas \in BOOLEAN, th \in {"None", "given"} :
            discord = DiscordCall("start", n, gas, th)
       \/ discord = DiscordCall("error", 0, FALSE, "None")

\* "if not properties: return thread_id", then the header message that
\* creates the thread when no thread id was passed.
NotifyStart ==
    /\ pc = "send_property_notification"
    /\ discord.stage = "start"
    /\ IF discord.n = 0
       THEN discord' = [discord EXCEPT !.stage = "done",
                                       !.outcome = "returned"]
       ELSE IF discord.thread # "None"
       THEN discord' = [discord EXCEPT !.stage = "listings"]
       ELSE \E resp \in ThreadResponses :
              discord' =
                IF resp = "failed"
                THEN [discord EXCEPT !.thread_posts = 1, !.stage = "done",
                                     !.outcome = "returned"]
                ELSE [discord EXCEPT
                        !.thread_posts = 1, !.stage = "listings",
                        !.thread = IF resp = "channel_id" THEN "created"
                                   ELSE "None"]
    /\ network' = network \cup (IF discord.n > 0 /\ discord.thread = "None"
                              THEN {"webhook"} ELSE {})
    /\ UNCHANGED << pc, mainvars, session_calls, log, returned, stations,
                    parse, browser >>

\* One iteration of the loop over the listings: _post_with_retry, then
\* time.sleep(1) unless the listing is the last one.
NotifyListing ==
    /\ pc = "send_property_notification"
    /\ discord.stage = "listings"
    /\ \E first \in PostResponses :
       \E retry \in (IF Retried(first) THEN PostResponses
                     ELSE {NoResponse}) :
         LET result == post_with_retry(first, retry)
             called == [discord EXCEPT
                          !.attempted = Append(discord.attempted, discord.idx),
                          !.first = first, !.retry = retry, !.last = result]
         IN  discord' =
               IF result.raised
               THEN [called EXCEPT !.stage = "done", !.outcome = "raised"]
               ELSE IF discord.idx < discord.n
               THEN [called EXCEPT !.idx = discord.idx + 1,
                                   !.waits = discord.waits + 1]
               ELSE [called EXCEPT !.idx = discord.idx + 1,
                                   !.stage = "bulk"]
    /\ network' = network \cup {"webhook"}
    /\ UNCHANGED << pc, mainvars, session_calls, log, returned, stations,
                    parse, browser >>

\* The approve-all link, sent when gas_webapp_url is set and there is more
\* than one listing; then "return created_thread_id".
NotifyBulk ==
    /\ pc = "send_property_notification"
    /\ discord.stage = "bulk"
    /\ IF discord.gas /\ discord.n > 1
       THEN \E first \in PostResponses :
            \E retry \in (IF Retried(first) THEN PostResponses
                          ELSE {NoResponse}) :
              LET result == post_with_retry(first, retry)
              IN  discord' =
                    [discord EXCEPT
                       !.bulk_posts = 1, !.first = first, !.retry = retry,
                       !.last = result, !.stage = "done",
                       !.outcome = IF result.raised THEN "raised"
                                   ELSE "returned"]
       ELSE discord' = [discord EXCEPT !.stage = "done",
                                       !.outcome = "returned"]
    /\ network' = network \cup (IF discord.gas /\ discord.n > 1
                              THEN {"webhook"} ELSE {})
    /\ UNCHANGED << pc, mainvars, session_calls, log, returned, stations,
                    parse, browser >>

\* send_error_notification, called by main() for a failed login and for a
\* failed customer.
SendErrorNotification ==
    /\ pc = "send_property_notification"
    /\ discord.stage = "error"
    /\ \E first \in PostResponses :
       \E second \in (IF first.status = 400 THEN PostResponses
                      ELSE {NoResponse}) :
         discord' = [discord EXCEPT
                       !.error_first = first, !.error_second = second,
                       !.error_call = send_error_notification(first, second),
                       !.stage = "done", !.outcome = "returned"]
    /\ network' = network \cup {"webhook"}
    /\ UNCHANGED << pc, mainvars, session_calls, log, returned, stations,
                    parse, browser >>

NextNotify ==
    \/ NotifyStart
    \/ NotifyListing
    \/ NotifyBulk
    \/ SendErrorNotification

SpecNotify == InitNotify /\ [][NextNotify]_vars

(***************************************************************************)
(* login() on its own, step by step, for any page the browser may land on. *)
(***************************************************************************)
InitLogin ==
    /\ pc = "login"
    /\ session_calls = << >>
    /\ log = NoLog
    /\ returned = {}
    /\ stations = StationIdle
    /\ parse = ParseIdle
    /\ MainIdle
    /\ discord = DiscordIdle
    /\ browser = BrowserCall("create")

\* self.driver = _create_driver(); an exception of _create_driver leaves
\* login() before the assignment.
LoginCreateDriver ==
    /\ browser.stage = "create"
    /\ \E created \in BOOLEAN :
         browser' =
           IF created
           THEN [browser EXCEPT !.stage = "entry",
                                !.session = SessionCreated(browser.session)]
           ELSE [browser EXCEPT !.stage = "done", !.outcome = "no_driver"]
    /\ network' = IF browser'.stage = "entry" THEN network \cup {"browser"}
                  ELSE network
    /\ UNCHANGED << pc, mainvars, session_calls, log, returned, stations,
                    parse, discord >>

\* Step 1: driver.get(entry_url) and the decision on the landing URL.
LoginEntry ==
    /\ browser.stage = "entry"
    /\ \/ browser' = LoginEnds(browser, "Exception")
       \/ \E loc \in Locations, cookie \in BOOLEAN :
            LET decision == EntryDecision(current_url(loc))
                landed == [browser EXCEPT
                             !.location = loc, !.cookie = cookie,
                             !.is_itandibb =
                                 is_itandibb_host(current_url(loc)),
                             !.entry = decision]
            IN  browser' =
                  IF decision = "logged_in" THEN LoginEnds(landed, "ok")
                  ELSE IF decision = "unexpected"
                  THEN LoginEnds(landed, "ItandiAuthError")
                  ELSE [landed EXCEPT !.stage = "form"]
    /\ UNCHANGED << pc, mainvars, network, session_calls, log, returned, stations,
                    parse, discord >>

\* Step 2: wait for the e-mail and password fields and fill them in; a
\* TimeoutException becomes ItandiAuthError.
LoginForm ==
    /\ browser.stage = "form"
    /\ \E fields \in BOOLEAN :
         browser' = IF fields
                    THEN [browser EXCEPT !.filled = TRUE, !.stage = "submit"]
                    ELSE LoginEnds(browser, "ItandiAuthError")
    /\ UNCHANGED << pc, mainvars, network, session_calls, log, returned, stations,
                    parse, discord >>

\* Step 3: find the submit button and click it; find_element raises
\* NoSuchElementException when there is none.
LoginSubmit ==
    /\ browser.stage = "submit"
    /\ \E button \in BOOLEAN :
         browser' = IF button
                    THEN [browser EXCEPT !.submits = browser.submits + 1,
                                         !.stage = "wait"]
                    ELSE LoginEnds(browser, "Exception")
    /\ UNCHANGED << pc, mainvars, network, session_calls, log, returned, stations,
                    parse, discord >>

\* Step 4: wait for an element with the expected text; on a timeout the
\* title and the URL decide which ItandiAuthError is raised.
LoginWait ==
    /\ browser.stage = "wait"
    /\ \E loc \in Locations, found, title_error \in BOOLEAN :
         LET at == [browser EXCEPT !.location = loc, !.text_found = found]
         IN  browser' =
               IF found THEN LoginEnds(at, "ok")
               ELSE LoginEnds(
                      [at EXCEPT !.timeout =
                          TimeoutDecision(title_error, current_url(loc))],
                      "ItandiAuthError")
    /\ UNCHANGED << pc, mainvars, network, session_calls, log, returned, stations,
                    parse, discord >>

\* close() on the session that login() left behind.
LoginThenClose ==
    /\ browser.stage = "done"
    /\ ~browser.closed
    /\ browser' = [browser EXCEPT !.closed = TRUE,
                                  !.session = SessionClose(browser.session)]
    /\ UNCHANGED << pc, mainvars, network, session_calls, log, returned, stations,
                    parse, discord >>

\* api_post on the session that login() left behind.
LoginThenPost ==
    /\ browser.stage = "done"
    /\ browser.post = "not_called"
    /\ \E raw \in SearchRaws, landing \in Locations :
         LET result == api_post(browser.session.driver # "None",
                                browser.location, landing, raw)
         IN  browser' = [browser EXCEPT !.post = result.raised,
                                        !.location = result.location]
    /\ posted' = TRUE
    /\ network' = network
         \cup (IF browser.session.driver # "None" THEN {"browser"} ELSE {})
    /\ UNCHANGED << pc, webhook, force_notify, seen_sheet, pending_sheet,
                    customers, seen_set, pending_set, exclude_set, itandi,
                    idx, search, new_properties, exit_status, login_result,
                    searched, written, notified, renotified, skipped,
                    error_notifications, errors, notified_prior, run, config,
                    session_calls, log, returned, stations, parse, discord >>

NextLogin ==
    \/ LoginCreateDriver
    \/ LoginEntry
    \/ LoginForm
    \/ LoginSubmit
    \/ LoginWait
    \/ LoginThenClose
    \/ LoginThenPost

SpecLogin == InitLogin /\ [][NextLogin]_vars

(***************************************************************************)
(* SpecParse: one of the two text parsers applied to one text of at most   *)
(* MaxTextLen characters.                                                  *)
(***************************************************************************)
InitParse ==
    /\ pc = "parse"
    /\ session_calls = << >>
    /\ log = NoLog
    /\ returned = {}
    /\ stations = StationIdle
    /\ MainIdle
    /\ discord = DiscordIdle
    /\ browser = BrowserIdle
    /\ \E text \in Texts : parse = ParseCall(text)

ParsePrice ==
    /\ pc = "parse"
    /\ parse.fn = "none"
    /\ parse' = [parse EXCEPT !.fn = "_parse_price_text",
                              !.result = _parse_price_text(parse.text)]
    /\ UNCHANGED << pc, mainvars, network, session_calls, log, returned, stations,
                    discord, browser >>

ParseArea ==
    /\ pc = "parse"
    /\ parse.fn = "none"
    /\ parse' = [parse EXCEPT !.fn = "_parse_area_text",
                              !.result = _parse_area_text(parse.text)]
    /\ UNCHANGED << pc, mainvars, network, session_calls, log, returned, stations,
                    discord, browser >>

NextParse ==
    \/ ParsePrice
    \/ ParseArea

SpecParse == InitParse /\ [][NextParse]_vars

(***************************************************************************)
(* SpecSeen: mark_properties_seen on its own, followed by the loader of    *)
(* the sheet it appends to.  main() does not call it.                      *)
(***************************************************************************)
SeenEntries == [customer_name : Names, room_id : 0..MaxRoomId]

EntryLists == UNION {[1..n -> SeenEntries] : n \in 0..MaxListings}

InitSeen ==
    /\ pc = "mark_properties_seen"
    /\ session_calls = << >>
    /\ log = NoLog
    /\ returned = {}
    /\ MainIdle
    /\ discord = DiscordIdle
    /\ browser = BrowserIdle
    /\ parse = ParseIdle
    /\ stations = StationIdle

\* mark_properties_seen(service, entries); an exception of the append
\* request leaves the function.
MarkPropertiesSeen ==
    /\ pc = "mark_properties_seen"
    /\ \E entries \in EntryLists, append_ok \in BOOLEAN :
         LET result == mark_properties_seen(seen_sheet, entries, append_ok)
         IN  /\ seen_sheet' = result.sheet
             /\ network' = network
                  \cup (IF result.requested THEN {"sheets"} ELSE {})
             /\ errors' = errors
                  \cup (IF result.raised THEN {"seen_write"} ELSE {})
    /\ UNCHANGED << pc, webhook, force_notify, pending_sheet, customers,
                    seen_set, pending_set, exclude_set, itandi, idx, search,
                    new_properties, exit_status, login_result, searched,
                    written, notified, renotified, skipped, posted,
                    error_notifications, notified_prior, run, config,
                    session_calls, log, returned, stations, parse, discord,
                    browser >>

\* load_seen_properties(service) on the sheet as it is now; a failed read
\* is caught inside it, which prints nothing.
LoadSeenProperties ==
    /\ pc = "mark_properties_seen"
    /\ \E read_ok \in BOOLEAN :
         /\ seen_set' = load_seen_properties(read_ok, seen_sheet)
         /\ log' = IF read_ok THEN log ELSE Silent(log, "seen_read")
    /\ network' = network \cup {"sheets"}
    /\ UNCHANGED << pc, webhook, force_notify, seen_sheet, pending_sheet,
                    customers, pending_set, exclude_set, itandi, idx, search,
                    new_properties, exit_status, login_result, searched,
                    written, notified, renotified, skipped, posted,
                    error_notifications, errors, notified_prior, run, config,
                    session_calls, returned, stations, parse, discord,
                    browser >>

NextSeen ==
    \/ MarkPropertiesSeen
    \/ LoadSeenProperties

SpecSeen == InitSeen /\ [][NextSeen]_vars

(***************************************************************************)
(* SpecStations: the head of search_properties, from the station names of  *)
(* the criteria to the station filter of the payload.                      *)
(***************************************************************************)
InitStations ==
    /\ pc = "stations"
    /\ session_calls = << >>
    /\ log = NoLog
    /\ returned = {}
    /\ MainIdle
    /\ discord = DiscordIdle
    /\ browser = BrowserIdle
    /\ parse = ParseIdle
    /\ \E names \in StationNameLists, prefecture \in Prefectures,
          driver_live \in BOOLEAN :
         stations = StationCall(names, prefecture, driver_live)

\* if criteria.stations: station_ids = resolve_station_ids(...)
StationsStart ==
    /\ stations.stage = "start"
    /\ stations' = [stations EXCEPT
                      !.stage = IF stations.names # << >> THEN "resolving"
                                ELSE "resolved"]
    /\ UNCHANGED << pc, mainvars, network, session_calls, log, returned, discord,
                    browser, parse >>

\* for name in station_names: one name, with its lookup if it is not blank
StationLookup ==
    /\ stations.stage = "resolving"
    /\ stations.i <= Len(stations.names)
    /\ \E answer \in StationAnswers :
         stations' = ResolveStep(stations, answer)
    /\ UNCHANGED << pc, mainvars, network, session_calls, log, returned, discord,
                    browser, parse >>

\* return all_ids
StationsReturn ==
    /\ stations.stage = "resolving"
    /\ stations.i > Len(stations.names)
    /\ stations' = [stations EXCEPT !.stage = "resolved"]
    /\ UNCHANGED << pc, mainvars, network, session_calls, log, returned, discord,
                    browser, parse >>

\* payload = build_search_payload(criteria, station_ids=station_ids)
StationsPayload ==
    /\ stations.stage = "resolved"
    /\ stations' = [stations EXCEPT !.stage = "payload",
                                    !.filter = StationFilter(stations.all_ids)]
    /\ UNCHANGED << pc, mainvars, network, session_calls, log, returned, discord,
                    browser, parse >>

NextStations ==
    \/ StationsStart
    \/ StationLookup
    \/ StationsReturn
    \/ StationsPayload

SpecStations == InitStations /\ [][NextStations]_vars

(***************************************************************************)
(* One ItandiSession under any sequence of login() and close() calls, each *)
(* login() with any of its outcomes.                                       *)
(***************************************************************************)
InitSession ==
    /\ pc = "session"
    /\ session_calls = << >>
    /\ log = NoLog
    /\ returned = {}
    /\ stations = StationIdle
    /\ parse = ParseIdle
    /\ MainIdle
    /\ discord = DiscordIdle
    /\ browser = BrowserIdle

\* login() on the session, whatever its state.
SessionLoginCall ==
    /\ pc = "session"
    /\ Len(session_calls) < MaxSessionCalls
    /\ \E outcome \in LoginOutcomes :
         /\ itandi' = SessionLogin(itandi, outcome)
         /\ session_calls' = Append(session_calls, "login")
         /\ network' = network
              \cup (IF outcome = "no_driver" THEN {} ELSE {"browser"})
    /\ UNCHANGED << pc, webhook, force_notify, seen_sheet, pending_sheet,
                    customers, seen_set, pending_set, exclude_set, idx,
                    search, new_properties, exit_status, login_result,
                    searched, written, notified, renotified, skipped, posted,
                    error_notifications, errors, notified_prior, run,
                    discord, browser, config, parse, stations, returned,
                    log >>

\* close() on the session, whatever its state.
SessionCloseCall ==
    /\ pc = "session"
    /\ Len(session_calls) < MaxSessionCalls
    /\ itandi' = SessionClose(itandi)
    /\ session_calls' = Append(session_calls, "close")
    /\ UNCHANGED << pc, webhook, force_notify, seen_sheet, pending_sheet,
                    customers, seen_set, pending_set, exclude_set, idx,
                    search, new_properties, exit_status, login_result,
                    searched, written, notified, renotified, skipped, posted,
                    error_notifications, errors, notified_prior, run,
                    discord, browser, config, network, parse, stations,
                    returned, log >>

NextSession ==
    \/ SessionLoginCall
    \/ SessionCloseCall

SpecSession == InitSession /\ [][NextSession]_vars

(***************************************************************************)
(* One iteration of the loop over the customers with its search followed   *)
(* page by page: a logged-in session, one customer, who has just been      *)
(* passed to search_properties, and an exclusion set that holds one of the *)
(* listings the pages carry.                                               *)
(***************************************************************************)
InitCustomer ==
    /\ pc = "search_properties"
    /\ session_calls = << >>
    /\ log = NoLog
    /\ returned = {}
    /\ stations = StationIdle
    /\ parse = ParseIdle
    /\ itandi = SessionLogin(NewSession, "ok")
    /\ search = SearchInit
    /\ customers = << "A" >>
    /\ idx = 1
    /\ seen_sheet = {<< "A", 1 >>}
    /\ seen_set = load_seen_properties(TRUE, seen_sheet)
    /\ pending_sheet = {}
    /\ pending_set = load_pending_properties(TRUE, pending_sheet)
    /\ exclude_set = ExcludeSet(seen_set, pending_set)
    /\ new_properties = << >>
    /\ exit_status = -1
    /\ login_result = "ok"
    /\ searched = << 1 >>
    /\ written = {}
    /\ notified = {}
    /\ renotified = {}
    /\ skipped = {}
    /\ posted = FALSE
    /\ error_notifications = 0
    /\ errors = {}
    /\ webhook \in BOOLEAN
    /\ force_notify = ""
    /\ notified_prior = {}
    /\ run = 1
    /\ discord = DiscordIdle
    /\ browser = BrowserIdle
    /\ config = ValidConfig
    /\ network = {"sheets", "browser"}

\* search_properties has returned or raised: the rest of the loop body.
CustomerResult ==
    /\ pc = "search_properties"
    /\ search.outcome # "running"
    /\ HandleResult(SearchResult(search))
    /\ UNCHANGED << webhook, force_notify, seen_sheet, customers, seen_set,
                    pending_set, itandi, search, login_result, searched,
                    posted, returned, notified_prior, run, discord, browser,
                    config, parse, stations, session_calls >>

NextCustomerSearch ==
    \/ SearchRequest
    \/ CustomerResult

SpecCustomer == InitCustomer /\ [][NextCustomerSearch]_vars

(***************************************************************************)
(* The new listings of one customer with the notification followed POST by *)
(* POST: main() at run.py:111 with a webhook URL configured, a non-empty   *)
(* new_properties of customer "A" and nothing of it recorded yet.          *)
(***************************************************************************)
NewListings ==
    {[i \in 1..n |-> Property(1, i)] : n \in 1..MaxListings}

InitDelivery ==
    /\ pc = "pending_write"
    /\ session_calls = << >>
    /\ log \in {NoLog, Logged(NoLog, "enrich")}
    /\ stations = StationIdle
    /\ parse = ParseIdle
    /\ itandi = SessionLogin(NewSession, "ok")
    /\ search = SearchInit
    /\ customers = << "A" >>
    /\ idx = 1
    /\ seen_sheet = {}
    /\ seen_set = {}
    /\ pending_sheet = {}
    /\ pending_set = {}
    /\ exclude_set = {}
    /\ new_properties \in NewListings
    /\ returned = Range(Keys("A", new_properties))
    /\ exit_status = -1
    /\ login_result = "ok"
    /\ searched = << 1 >>
    /\ written = {}
    /\ notified = {}
    /\ renotified = {}
    /\ skipped = {}
    /\ posted = TRUE
    /\ error_notifications = 0
    /\ errors = {}
    /\ webhook = TRUE
    /\ force_notify = ""
    /\ notified_prior = {}
    /\ run = 1
    /\ discord = DiscordIdle
    /\ browser = BrowserIdle
    /\ config = ValidConfig
    /\ network = {"sheets", "browser"}

\* write_pending_properties, whose failure is printed (run.py:120-132), and
\* the call of send_property_notification (run.py:135-143), with or without
\* a thread id of the customer and an approve-all link.
DeliveryWrite ==
    /\ pc = "pending_write"
    /\ \E write_ok, gas \in BOOLEAN, th \in {"None", "given"} :
         LET keys == Range(Keys(customers[idx], new_properties))
         IN  /\ pending_sheet' =
                  IF write_ok
                  THEN write_pending_properties(pending_sheet,
                                                customers[idx],
                                                new_properties)
                  ELSE pending_sheet
             /\ written' = IF write_ok THEN written \cup keys ELSE written
             /\ log' = IF write_ok THEN log
                       ELSE Logged(log, "pending_write")
             /\ notified' = notified \cup keys
             /\ discord' = DiscordCall("start", Len(new_properties), gas, th)
    /\ pc' = "send_property_notification"
    /\ network' = network \cup {"sheets"}
    /\ UNCHANGED << webhook, force_notify, seen_sheet, customers, seen_set,
                    pending_set, exclude_set, itandi, idx, search,
                    new_properties, exit_status, login_result, searched,
                    renotified, skipped, posted, error_notifications, errors,
                    notified_prior, run, browser, config, parse, stations,
                    returned, session_calls >>

\* send_property_notification has returned or raised: the additions to the
\* exclusion set (run.py:152-154), or the handler of the loop body
\* (run.py:167-173), which is reached before them.
DeliveryDone ==
    /\ pc = "send_property_notification"
    /\ discord.stage = "done"
    /\ IF discord.outcome = "raised"
       THEN /\ LoopHandler("Exception", "notify")
            /\ log' = Logged(log, "notify")
            /\ UNCHANGED exclude_set
       ELSE /\ exclude_set' = exclude_set
                  \cup Range(Keys(customers[idx], new_properties))
            /\ NextCustomer
            /\ UNCHANGED << exit_status, error_notifications, errors, log >>
    /\ UNCHANGED << webhook, force_notify, seen_sheet, pending_sheet,
                    customers, seen_set, pending_set, itandi, search,
                    new_properties, login_result, searched, written,
                    notified, renotified, skipped, posted, notified_prior,
                    run, discord, browser, config, network, parse, stations,
                    returned, session_calls >>

NextDelivery ==
    \/ DeliveryWrite
    \/ NotifyStart
    \/ NotifyListing
    \/ NotifyBulk
    \/ DeliveryDone

SpecDelivery == InitDelivery /\ [][NextDelivery]_vars

(***************************************************************************)
(* Progress.  A behaviour is one run of main(), one search_properties call *)
(* page by page, or one notification call POST by POST.  The program is a  *)
(* single thread and every external call is taken to return or raise, so   *)
(* its next step is always taken: weak fairness of the step.               *)
(***************************************************************************)
InitProgress == Init \/ InitSearch \/ InitNotify

NextProgress ==
    \/ Next
    \/ NextSearch
    \/ NextNotify

SpecProgress ==
    InitProgress /\ [][NextProgress]_vars /\ WF_vars(NextProgress)

(***************************************************************************)
(* Properties.                                                             *)
(***************************************************************************)
RECURSIVE Flatten(_)
Flatten(seqs) ==
    IF seqs = << >> THEN << >> ELSE Head(seqs) \o Flatten(Tail(seqs))

FatalFailure == errors \cap {"sheets", "criteria", "login"} # {}

\* C1: without FORCE_NOTIFY, a key that is in the seen set or in the pending
\* set loaded at the start of the run is neither appended to the pending
\* sheet nor passed to send_property_notification in this run.
C1_Dedup ==
    ~ForceNotify(force_notify) =>
        \A key \in seen_set \cup pending_set :
            key \notin written /\ key \notin notified

\* The searches returned a listing of the loaded sets, which the filter
\* dropped, and a new one, which was written and notified.
C1_Witness ==
    /\ ~ForceNotify(force_notify)
    /\ pc = "close"
    /\ skipped \cap (seen_set \cup pending_set) # {}
    /\ written # {}
    /\ written = notified

\* C2: over runs without FORCE_NOTIFY a key is passed to the notifier in at
\* most one run, whatever the spreadsheet reads and writes did.
C2_NotifiedInOneRun ==
    ~ForceNotify(force_notify) => notified \cap notified_prior = {}

\* C3: within one run no key is passed to send_property_notification more
\* than once.
C3_NoDuplicateNotification == renotified = {}

\* C4: after a successful login search_properties is invoked once for every
\* customer, in list order, whatever errors earlier customers raised.
C4_EveryCustomerSearched ==
    /\ searched = [i \in 1..Len(searched) |-> i]
    /\ Len(searched) <= Len(customers)
    /\ (login_result = "ok" /\ pc \in {"close", "exited"})
          => Len(searched) = Len(customers)

\* Of two customers one failed with an authentication error of api_post
\* and the notification of the other one raised; both were searched.
C4_Witness ==
    /\ pc = "exited"
    /\ login_result = "ok"
    /\ Len(customers) = 2
    /\ {"session_auth", "notify"} \subseteq errors
    /\ searched = << 1, 2 >>

\* C5: a run that launched a browser has quit it exactly once when the
\* process ends, and never quits it twice.
C5_DriverQuitOnce ==
    /\ itandi.launched <= 1
    /\ itandi.quits <= itandi.launched
    /\ (pc = "exited" /\ itandi.launched = 1)
          => (itandi.quits = 1 /\ itandi.driver = "None")

\* The run ended after a customer raised an error, with the browser quit.
C5_Witness ==
    /\ pc = "exited"
    /\ login_result = "ok"
    /\ errors \cap {"search", "session_auth", "notify"} # {}
    /\ itandi.launched = 1
    /\ itandi.quits = 1

\* C6: after login() raised ItandiAuthError, send_error_notification was
\* called once if a webhook is configured and not at all otherwise, no
\* search and no api_post was issued, nothing was written to the pending
\* sheet, and the process exited with a non-zero status.
C6_LoginAuthFailure ==
    login_result = "ItandiAuthError" =>
        /\ error_notifications = (IF webhook THEN 1 ELSE 0)
        /\ searched = << >>
        /\ ~posted
        /\ written = {}
        /\ pc = "exited"
        /\ exit_status # 0

\* login() raised ItandiAuthError in a run with a webhook and customers.
C6_Witness ==
    /\ login_result = "ItandiAuthError"
    /\ webhook
    /\ customers # << >>
    /\ error_notifications = 1
    /\ exit_status = 1

\* C7: after an ItandiAuthError of the session component (login() or
\* api_post during a customer's search) no further customer is searched.
C7_AuthErrorEndsRun ==
    [][errors \cap {"login", "session_auth"} # {} => searched' = searched]_vars

\* C8: the exit status is non-zero exactly when the sheets initialisation,
\* the criteria load or the login failed.
C8_ExitStatus ==
    pc = "exited" => ((exit_status # 0) <=> FatalFailure)

\* The three steps succeeded, both customers raised errors, exit status 0.
C8_Witness ==
    /\ pc = "exited"
    /\ login_result = "ok"
    /\ exit_status = 0
    /\ Len(customers) = 2
    /\ {"search", "notify"} \subseteq errors

\* C9: page requests are numbered 1, 2, ... consecutively, one per page;
\* the search goes on exactly while the more-results flag is true and fewer
\* than 10 pages were requested, and the result is the concatenation of the
\* listings parsed from the pages in page order.
C9_Pagination ==
    /\ search.sent_pages = [i \in 1..search.requests |-> i]
    /\ search.requests <= 10
    /\ search.outcome \in {"running", "returned"} =>
         /\ Len(search.more) = search.requests
         /\ Len(search.parsed) = search.requests
         /\ search.all_properties = Flatten(search.parsed)
         /\ \A i \in 1..(Len(search.more) - 1) : search.more[i]
         /\ (search.outcome = "returned") <=>
               /\ search.requests > 0
               /\ \/ ~search.more[search.requests]
                  \/ search.requests = 10

\* The flag never turned false: 10 requests, the listings of 10 pages.
C9_Witness ==
    /\ pc = "search_properties"
    /\ search.outcome = "returned"
    /\ search.requests = 10
    /\ \A i \in 1..10 : search.more[i]
    /\ Len(search.all_properties) >= 10

\* C10: search_properties returns at most 200 listings.
C10_AtMost200 ==
    search.outcome = "returned"
        => Len(search.all_properties) <= DocumentedMaxResults

\* C11: a page request answered with 401 leaves search_properties as
\* ItandiAuthError, one answered with 422 or 429 as ItandiSearchError, and
\* in the three cases the request was the last one of the call, each page
\* having been requested once.
C11_StatusTaxonomy ==
    search.last_status \in {401, 422, 429} =>
        /\ search.outcome = (IF search.last_status = 401
                             THEN "ItandiAuthError" ELSE "ItandiSearchError")
        /\ search.sent_pages = [i \in 1..search.requests |-> i]

Posts(events) ==
    Cardinality({i \in 1..Len(events) : events[i].op = "post"})

\* C12: _post_with_retry sends a message at most twice; a first POST
\* answered with 429 is followed by a sleep, of the retry_after value when
\* the answer carries one, and then by exactly one retry POST, whose
\* failure is logged and not retried; a first POST with any other outcome
\* is never retried.
C12_PostAtMostTwice ==
    discord.first # NoResponse =>
        /\ Posts(discord.last.events) \in {1, 2}
        /\ discord.first.status = 429
              => /\ Len(discord.last.events) = 3
                 /\ discord.last.events[1] = PostEvent
                 /\ discord.last.events[2].op = "sleep"
                 /\ discord.first.body = "number"
                       => discord.last.events[2].secs =
                              discord.first.retry_after
                 /\ discord.last.events[3] = PostEvent
                 /\ ~discord.last.raised
                 /\ discord.last.errors =
                      (IF discord.retry.kind = "transport"
                          \/ RaisesForStatus(discord.retry)
                       THEN 2 ELSE 1)
        /\ discord.first.status # 429
              => discord.last.events = << PostEvent >>

\* C13: once a thread is available, send_property_notification attempts a
\* POST for every listing in list order and no failure of a listing's POST
\* raises out of the function.
C13_EveryListingAttempted ==
    /\ discord.outcome # "raised"
    /\ (discord.stage = "done" /\ discord.thread # "None")
          => discord.attempted = [i \in 1..discord.n |-> i]

\* C14: for one customer whose search returned n listings, none of them in
\* the seen or pending sheet, and with every external call succeeding, the
\* run produced n listing records, notified n listings and persisted n new
\* entries in the seen sheet.
C14_EndToEnd ==
    ( /\ pc = "exited"
      /\ login_result = "ok"
      /\ Len(customers) = 1
      /\ errors = {}
      /\ webhook
      /\ ~ForceNotify(force_notify)
      /\ new_properties # << >>
      /\ renotified = {}
      /\ skipped = {}
      /\ written = Range(Keys(customers[1], new_properties))
      /\ written \cap (CHOOSE sheet \in InitialSeen : TRUE) = {}
      /\ written \cap (CHOOSE sheet \in InitialPending : TRUE) = {} )
    => /\ Cardinality(written) = Len(new_properties)
       /\ notified = written
       /\ Cardinality(seen_sheet \ (CHOOSE sheet \in InitialSeen : TRUE))
             = Len(new_properties)

\* C15: _is_itandibb_host is FALSE for every URL whose network location is
\* the login domain, whatever its query string carries, and TRUE only when
\* the network location names the application domain.
C15_HostMatch ==
    browser.entry # "none" =>
        /\ browser.location.netloc = << LoginDomain >> => ~browser.is_itandibb
        /\ browser.is_itandibb => WordIn(AppDomain, browser.location.netloc)

\* The entry page is on the login domain with a redirect_uri that holds the
\* application domain, and the helper answered FALSE.
C15_Witness ==
    /\ browser.entry # "none"
    /\ browser.location.netloc = << LoginDomain >>
    /\ WordIn(AppDomain, browser.location.query)
    /\ ~browser.is_itandibb

\* C16: the decisions of _do_login on the browser's URL depend only on its
\* network location: any URL with the same network location gets the same
\* decision, on the entry page and after a timed-out wait.  The URL is the
\* one login() read, before a later api_post moves the browser.
C16_NetlocOnly ==
    browser.post = "not_called" =>
    /\ browser.entry # "none" /\ browser.timeout = "none" /\ ~browser.filled
         => \A loc \in Locations :
               loc.netloc = browser.location.netloc
                  => EntryDecision(current_url(loc)) = browser.entry
    /\ browser.timeout \in {"login_page", "unexpected"}
         => \A loc \in Locations :
               loc.netloc = browser.location.netloc
                  => TimeoutDecision(FALSE, current_url(loc)) = browser.timeout

\* C17: login() returns normally only with the browser on the application
\* domain, and raises ItandiAuthError when, after the form was submitted,
\* the browser is still on the login domain with a path that holds "login".
C17_SuccessOnAppDomain ==
    /\ browser.outcome = "ok"
         => browser.location.netloc = << AppDomain >>
    /\ ( /\ browser.stage = "done"
         /\ browser.submits > 0
         /\ browser.location.netloc = << LoginDomain >>
         /\ WordIn("login", browser.location.path) )
         => browser.outcome = "ItandiAuthError"

\* C18: login() returns without filling in the form only when the entry
\* page is on the application domain and a session cookie is present.
C18_ExistingSession ==
    (browser.outcome = "ok" /\ ~browser.filled)
        => /\ browser.location.netloc = << AppDomain >>
           /\ browser.cookie

\* C19: every failure of the login flow in the launched browser leaves
\* login() as ItandiAuthError.
C19_LoginFailureType ==
    (browser.session.launched > 0 /\ browser.outcome \notin {"running", "ok"})
        => browser.outcome = "ItandiAuthError"

\* C20: a run with a missing or malformed configuration input ends with a
\* non-zero exit status and without any network activity: no spreadsheet
\* request, no browser launch, no webhook POST.
C20_ConfigAbortsEarly ==
    (pc = "exited" /\ config # ValidConfig)
        => /\ exit_status # 0
           /\ network = {}

\* a text none of whose runs of digits and points is a well-formed number
NoWellFormedNumber(text) ==
    \A i \in RunStarts(text) : ~FloatAccepts(SubSeq(text, i, RunEnd(text, i)))

\* C21: _parse_price_text never raises and returns an integer: 120000 for
\* "12万円", 35000 for "3.5万", 0 for "-", and 0 for every text without a
\* well-formed number, such as "." or "1..万".
C21_PriceTotal ==
    parse.fn = "_parse_price_text"
        => /\ ~parse.result.raised
           /\ parse.result.den = 1
           /\ parse.text = <<"1", "2", "man", "yen">>
                 => parse.result.num = 120000
           /\ parse.text = <<"3", ".", "5", "man">>
                 => parse.result.num = 35000
           /\ parse.text = <<"-">> => parse.result.num = 0
           /\ NoWellFormedNumber(parse.text) => parse.result.num = 0

\* the text "25.5" followed by nothing or by the square-metre sign
AreaExample(text) ==
    /\ Len(text) >= 4
    /\ SubSeq(text, 1, 4) = <<"2", "5", ".", "5">>
    /\ \A i \in 5..Len(text) : text[i] = "m2"

\* C22: _parse_area_text never raises and returns a number: 25.5 for "25.5"
\* followed by a square-metre sign, 0.0 for the empty text and 0.0 for every
\* text without a well-formed number.
C22_AreaTotal ==
    parse.fn = "_parse_area_text"
        => /\ ~parse.result.raised
           /\ AreaExample(parse.text)
                 => parse.result.num * 10 = 255 * parse.result.den
           /\ parse.text = << >> => parse.result.num = 0
           /\ NoWellFormedNumber(parse.text) => parse.result.num = 0

\* the rooms of a page that carry an identifier, as records, in building
\* order then room order
RoomRecords(buildings) ==
    Flatten([i \in 1..Len(buildings) |->
        IF ~buildings[i].isdict THEN << >>
        ELSE LET with_id == SelectSeq(buildings[i].rooms,
                                LAMBDA r : r.isdict /\ r.property_id # 0)
             IN  [j \in 1..Len(with_id) |->
                     Property(buildings[i].property_id,
                              with_id[j].property_id)]])

\* C23: parse_search_response does not raise and returns exactly one record
\* per room that carries an identifier, in building order then room order;
\* rooms without identifier, rooms and buildings that are not dicts and
\* buildings without rooms are skipped without dropping the other rooms.
C23_OneRecordPerRoom ==
    (search.last_status = 200 /\ search.requests > 0)
        => /\ search.outcome # "ValueError"
           /\ Len(search.parsed) = search.requests
           /\ search.parsed[search.requests] = RoomRecords(search.buildings)

\* the identifiers of the stations of the answered lookups whose label is the
\* requested name and, when the prefecture has an identifier, whose
\* prefecture_id is that identifier, in request order
ExactMatches(c) ==
    Flatten([k \in 1..Len(c.lookups) |->
        LET exact == SelectSeq(c.lookups[k].stations,
                        LAMBDA st :
                            /\ st.label = c.lookups[k].name
                            /\ (PrefectureId(c.prefecture) # 0
                                  => st.prefecture_id
                                       = PrefectureId(c.prefecture)))
        IN  [n \in 1..Len(exact) |-> exact[n].id]])

\* C24: resolve_station_ids returns, in request order, exactly the
\* identifiers of the looked-up stations whose label equals the requested
\* name and whose prefecture_id equals the identifier of the prefecture when
\* it has one; a non-empty result is the station_id:in filter of the payload.
C24_StationIds ==
    /\ stations.stage \in {"resolved", "payload"}
         => stations.all_ids = ExactMatches(stations)
    /\ (stations.stage = "payload" /\ stations.all_ids # << >>)
         => stations.filter = [present |-> TRUE, ids |-> stations.all_ids]

\* two lookups answered, the first with an exact and a partial match, the
\* second with a station of another prefecture: only the exact match of the
\* prefecture is in the filter
C24_Witness ==
    /\ stations.stage = "payload"
    /\ stations.prefecture = "tokyo"
    /\ Len(stations.lookups) = 2
    /\ stations.lookups[1].stations = SubSeq(StationCatalogue, 1, 2)
    /\ stations.lookups[1].name = <<"s">>
    /\ stations.lookups[2].stations = SubSeq(StationCatalogue, 2, 3)
    /\ stations.filter = [present |-> TRUE, ids |-> <<1, 2>>]

\* both loads of step 3 are behind the run
Loaded == pc \in {"login", "customer", "close"} \/ login_result # "none"

\* C25: with FORCE_NOTIFY=1 neither sheet is loaded and the exclusion set
\* starts empty, so every listing a search returned has been passed to the
\* notifier (a webhook being configured), also one notified in an earlier
\* run; with any other value the seen and pending sets are loaded from the
\* sheets and no key of them is written or notified.
C25_ForceNotify ==
    /\ force_notify = "1"
         => /\ seen_set = {}
            /\ pending_set = {}
            /\ log.caught \cap {"seen_read", "pending_read"} = {}
            /\ pc = "login" => exclude_set = {}
            /\ webhook => returned \subseteq notified
    /\ (force_notify # "1" /\ Loaded)
         => /\ "seen_read" \notin log.caught
                 => seen_set = load_seen_properties(TRUE, seen_sheet)
            /\ (pc = "login" /\ "pending_read" \notin log.caught)
                 => pending_set = load_pending_properties(TRUE, pending_sheet)
            /\ seen_set \cup pending_set \subseteq exclude_set
            /\ (notified \cup written) \cap (seen_set \cup pending_set) = {}

\* a run with FORCE_NOTIFY=1 notifies a listing that is in the sheet of the
\* notified listings
C25_Witness ==
    /\ force_notify = "1"
    /\ webhook
    /\ \E k \in notified : k \in load_seen_properties(TRUE, seen_sheet)

\* C30: every error that is caught and not raised again has a log line: the
\* failed read of the seen or of the pending sheet, the failed pending write,
\* the failed search and the failed notification included.
C30_CaughtIsLogged == log.caught \subseteq log.printed

\* C26: when login() fails after the browser was launched, the driver was
\* quit exactly once and session.driver is None: a later close() quits
\* nothing and a later api_post raises ItandiAuthError.
C26_FailedLoginCleanup ==
    (browser.stage = "done" /\ browser.session.launched > 0
       /\ browser.outcome # "ok")
        => /\ browser.session.driver = "None"
           /\ browser.session.quits = 1
           /\ browser.post \in {"not_called", "ItandiAuthError"}

\* the submit button was missing: login() raised, close() and api_post were
\* called afterwards
C26_Witness ==
    /\ browser.stage = "done"
    /\ browser.outcome = "Exception"
    /\ browser.filled
    /\ browser.session.launched = 1
    /\ browser.closed
    /\ browser.post = "ItandiAuthError"
    /\ browser.session.quits = 1

\* C27: the login form is submitted at most once and the browser is launched
\* at most once: after a failure there is no second submit and no second
\* login attempt.
C27_SubmitOnce ==
    /\ browser.submits <= 1
    /\ browser.session.launched <= 1
    /\ browser.stage = "done" => browser.outcome # "running"

\* the form was submitted once, the wait timed out and login() raised
C27_Witness ==
    /\ browser.stage = "done"
    /\ browser.submits = 1
    /\ browser.outcome = "ItandiAuthError"
    /\ browser.timeout = "login_page"

\* C28: the thread-creation request is sent at most once, only when no thread
\* id was passed and the list is not empty, and before any listing message;
\* every listing message and the approve-all message goes to a thread id,
\* the one passed or the one created, never to an absent one; when the
\* creation request fails no listing message is posted and the thread id
\* passed is returned.
C28_ThreadTarget ==
    /\ discord.thread_posts <= 1
    /\ discord.thread_posts = 1 => (discord.n > 0 /\ discord.thread # "given")
    /\ (discord.attempted # << >> \/ discord.bulk_posts > 0)
         => discord.thread # "None"
    /\ (discord.stage = "done" /\ discord.thread_posts = 1
          /\ discord.thread = "None")
         => (discord.attempted = << >> /\ discord.bulk_posts = 0
               /\ discord.outcome = "returned")

\* C29: apart from the one retry of a notification POST answered with 429,
\* no request is sent a second time because the first one failed: the
\* thread-creation request and the error notification are sent once.
C29_NoOtherRetry ==
    /\ discord.thread_posts <= 1
    /\ Posts(discord.last.events) = 2 => discord.first.status = 429
    /\ Posts(discord.error_call.events) <= 1

\* The ways a run of main() ends: itandi.close() after the loop over the
\* customers, a fatal exit with status 1, or the return taken when no search
\* criteria are registered (run.py:52-54), before any session exists.
FinalClose ==
    pc = "exited" /\ login_result = "ok" /\ idx > Len(customers)

FatalExit == pc = "exited" /\ exit_status = 1

EmptyReturn ==
    /\ pc = "exited"
    /\ exit_status = 0
    /\ customers = << >>
    /\ login_result = "none"

SearchEnded == pc = "search_properties" /\ search.outcome # "running"

NotifyEnded == pc = "send_property_notification" /\ discord.stage = "done"

\* At most 10 page requests per search, at most 2 POSTs per message.
RequestsBounded ==
    /\ Len(search.sent_pages) <= max_pages
    /\ search.requests <= max_pages
    /\ Posts(discord.last.events) <= 2
    /\ Posts(discord.error_call.events) <= 2
    /\ discord.thread_posts <= 1

\* The number of steps a behaviour can still take before it ends, at most:
\* the stages of main() in front of the loop, the customers left and the
\* close; the pages left to a search; the listings left to a notification
\* and the approve-all link.
Measure ==
    CASE pc = "sheets_init" -> MaxCustomers + 6
      [] pc = "load_criteria" -> MaxCustomers + 5
      [] pc = "load_seen" -> MaxCustomers + 4
      [] pc = "load_pending" -> MaxCustomers + 3
      [] pc = "login" -> MaxCustomers + 2
      [] pc = "customer" -> Len(customers) - idx + 2
      [] pc = "close" -> 1
      [] pc = "exited" -> 0
      [] pc = "search_properties" ->
            IF search.outcome # "running" THEN 0
            ELSE max_pages - search.page + 1
      [] pc = "send_property_notification" ->
            CASE discord.stage = "start" -> discord.n + 3
              [] discord.stage = "listings" -> discord.n - discord.idx + 2
              [] discord.stage \in {"bulk", "error"} -> 1
              [] discord.stage = "done" -> 0

\* C31 as stated: a search sends at most 10 page requests, a notification
\* message is POSTed at most twice, and every run of main() reaches the
\* final session close or a fatal exit: every step lowers the number of
\* steps left, a step is possible in every state that is not an end, and
\* the ends of main() are the final close and the fatal exits.
C31_ClosesOrFatal ==
    /\ []RequestsBounded
    /\ [](Measure \in Nat)
    /\ [][Measure' < Measure]_vars
    /\ [](Measure > 0 => ENABLED NextProgress)
    /\ [](Measure = 0 <=>
            (FinalClose \/ FatalExit \/ SearchEnded \/ NotifyEnded))

\* C31, amended: a search sends at most 10 page requests, a notification
\* message is POSTed at most twice, and every run of main() ends, with the
\* final session close, with a fatal exit, or with the return taken when no
\* search criteria are registered: every step lowers the number of steps
\* left and a step is possible in every state that is not one of these
\* ends.
C31_Terminates ==
    /\ []RequestsBounded
    /\ [](Measure \in Nat)
    /\ [][Measure' < Measure]_vars
    /\ [](Measure > 0 => ENABLED NextProgress)
    /\ [](Measure = 0 <=>
            (FinalClose \/ FatalExit \/ EmptyReturn \/ SearchEnded
               \/ NotifyEnded))

\* A run over two customers, one of which raised an error, that ended with
\* the final session close.
C31_Witness ==
    /\ FinalClose
    /\ Len(customers) = 2
    /\ Len(searched) = 2
    /\ errors # {}
    /\ itandi.quits = 1

\* The search of the customer failed on a page after the first one.
FailedAfterFirstPage ==
    /\ pc # "search_properties"
    /\ search.outcome \notin {"running", "returned"}
    /\ Len(search.sent_pages) > 1

\* C32: when search_properties fails on a page after the first one, the
\* listings parsed from the pages before it are dropped: nothing is written
\* to the pending sheet, nothing is notified, and the exclusion set is what
\* it was before that customer.
C32_PartialResultsDiscarded ==
    FailedAfterFirstPage =>
        /\ written = {}
        /\ pending_sheet = {}
        /\ notified = {}
        /\ new_properties = << >>
        /\ exclude_set = ExcludeSet(seen_set, pending_set)

\* The third page request failed after two pages with listings were parsed,
\* some of them not in the exclusion set; the failure was reported.
C32_Witness ==
    /\ FailedAfterFirstPage
    /\ search.outcome = "ItandiSearchError"
    /\ Len(search.sent_pages) = 3
    /\ \E i \in 1..Len(search.all_properties) :
           Key("A", search.all_properties[i]) \notin exclude_set
    /\ webhook
    /\ error_notifications = 1
    /\ errors = {"search"}

\* The browsers the session launched and has not quit.
LiveBrowsers == itandi.launched - itandi.quits

\* C33: under any sequence of login() and close() calls on one session, at
\* most one browser it launched is live at any time, no browser is left
\* live when the last call was close(), and close() on a session without a
\* driver changes nothing.
C33_SingleBrowser ==
    /\ [](LiveBrowsers <= 1)
    /\ []((session_calls # << >>
             /\ session_calls[Len(session_calls)] = "close")
            => LiveBrowsers = 0)
    /\ [][(itandi.driver = "None"
             /\ session_calls' = Append(session_calls, "close"))
            => itandi' = itandi]_vars

\* The keys of the listings for which send_property_notification called
\* _post_with_retry.
PostAttempted ==
    {Key(customers[idx - 1], new_properties[discord.attempted[i]]) :
        i \in 1..Len(discord.attempted)}

\* write_pending_properties was called: it appended the rows or its failure
\* was printed.
WriteAttempted == written # {} \/ "pending_write" \in log.caught

\* C34: with a webhook URL configured, every listing written to the pending
\* sheet or added to the exclusion set for a customer has had a notification
\* POST attempted for it, and the pending-sheet write is attempted before
\* the first POST of the customer's notification.
C34_RecordedIsNotified ==
    /\ pc \in {"customer", "close"}
          => (written \cup exclude_set) \subseteq PostAttempted
    /\ (discord.thread_posts > 0 \/ discord.attempted # << >>)
          => WriteAttempted

====
